---- MODULE Spec2Model ----
(***************************************************************************)
(* Scan orchestration of the on-device security agent                      *)
(* (services/ScanService.ts, module-level variant): performScan's          *)
(* single-flight bookkeeping (scanPromise, currentScanKey, scanCancelled)  *)
(* and executeScan's batch loop, completion report and failure report.     *)
(*                                                                         *)
(* Every call of quickScan/fullScan is a row of `call'; the call that      *)
(* starts an executeScan run owns the run of the same index in `run'.      *)
(* An action is the code between two suspension points (await) of one      *)
(* async function, so the interleavings are those of the JS event loop.    *)
(***************************************************************************)
EXTENDS Integers, Sequences, FiniteSets, TLC

\* ---------------------------------------------------------------- constants
BATCH_SIZE == 50
MAX_FILE_SIZE == 104857600
\* setTimeout(() => stopRinging(), 30000), in milliseconds
RING_TIMEOUT == 30000

\* ------------------------------------------------------------------- bounds
\* candidate files on the device in the largest file system explored
MaxFiles == 120
\* quickScan/fullScan calls made in one behaviour of Spec
MaxCalls == 2
\* quickScan/fullScan calls made in one behaviour of SingleFlightSpec
MaxCallers == 4
\* quickScan/fullScan calls made in one behaviour of WalkSpec
MaxWalkCalls == 1
\* pieces a path given to sanitizePath is made of
MaxPieces == 3
\* times sanitizePath is applied to its own output
MaxApplications == 2
\* quarantineFile/restoreQuarantinedFile calls made in one behaviour
MaxQuarantineOps == 3

\* ------------------------------------------------------------ input domains
Max(a, b) == IF a >= b THEN a ELSE b

CallIds == 1..Max(MaxCalls, MaxCallers)

\* the (type, options) pairs callers pass: quickScan(), fullScan() and
\* quickScan(cb, {pathSanitization: 'none'})
ScanParams == {<<"quick", "undefined">>, <<"full", "undefined">>,
               <<"quick", "none">>}

\* fingerprints: "" is hashFile's sentinel for an unreadable file
Fingerprints == {"", "aa", "bb"}

FileCounts == {0, 1, BATCH_SIZE, MaxFiles}

\* positions of the files whose content is the malware sample "bb"
InfectedSets == {{}, {1}, {BATCH_SIZE + 1, BATCH_SIZE + 2}}

\* positions of the files that cannot be read
UnreadableSets == {{}, {2}}

\* the fingerprints the classification oracle flags as threats
ThreatDbs == {{"bb"}, {"", "bb"}}

\* outcomes of one awaited collaborator call (getDeviceId, then fetch)
CallOutcomes == {"ok", "network", "deviceId"}

\* the most commands of a behaviour of the anti-theft dispatcher
MaxCommands == 3

\* the most ring commands of a behaviour
MaxRings == 2

\* the most steps of the clock in a behaviour
MaxTicks == 5

\* outcomes of Crypto.digestStringAsync
DigestOutcomes == {"ok", "throws"}

VARIABLES
    scanPromise,      \* 0 (null) or the run whose promise is stored
    currentScanKey,   \* <<>> (null) or the scan key of the stored promise
    scanCancelled,    \* the cooperative cancellation flag
    call,             \* per performScan call: its state and parameters
    run,              \* per executeScan run: locals and position
    numCalls,         \* calls made so far
    callBudget,       \* calls the callers of this behaviour make
    fs,               \* content fingerprint of every candidate file on disk
    threatDb,         \* fingerprints the oracle classifies as threats
    san,              \* sanitizePath: its argument, options and return values
    disk,             \* the platform and the directories of the scan roots
    walk,             \* what the last directory walk found
    quar,             \* quarantine: the files, the requests sent, the call
    store,            \* the persisted key-value state, regular and secure
    alarm,            \* the ring alarm: sound handles, currentSound, timers
    cmd,              \* the anti-theft commands: the latest one, the prompts
    push,             \* the notification callbacks and the deliveries
    ident             \* the calls of getDeviceId under way and their results

vars == <<scanPromise, currentScanKey, scanCancelled, call, run, numCalls,
          callBudget, fs, threatDb, san, disk, walk, quar, store, alarm, cmd,
          push, ident>>

\* the state of the scan orchestration
scanVars == <<scanPromise, currentScanKey, scanCancelled, call, run, numCalls,
              callBudget, fs, threatDb>>

\* the state of the functions outside the scan orchestration
otherVars == <<san, disk, walk, quar, store, alarm, cmd, push, ident>>

\* the state of the anti-theft commands
deviceVars == <<store, alarm, cmd, push, ident>>

\* ------------------------------------------------------------ pure helpers
Min(a, b) == IF a <= b THEN a ELSE b

\* Array.prototype.slice(from, to) on a 1-based sequence (from, to 0-based)
Slice(s, from, to) == SubSeq(s, from + 1, Min(to, Len(s)))

\* JSON.stringify(options || {})
JSONstringify(opts) ==
    IF opts = "undefined" THEN "{}" ELSE "{pathSanitization:none}"

\* `${type}-${JSON.stringify(options || {})}`
ScanKey(type, opts) == <<type, JSONstringify(opts)>>

NullKey == <<>>

\* a slice that overlaps the next batch by one file
BatchOf_Overlapping(files, i) == Slice(files, i, i + BATCH_SIZE + 1)

\* the batch of iteration i: filesToScan.slice(i, i + BATCH_SIZE)
BatchOf(files, i) == Slice(files, i, i + BATCH_SIZE)

\* hashFile: the file's fingerprint, "" when it cannot be read
hashFile(f) == fs[f]

\* the oracle's answer to one hash-check request
HashCheck(hashes) ==
    {[hash |-> hashes[j], isThreat |-> hashes[j] \in threatDb] :
        j \in 1..Len(hashes)}

\* results.find(r => r.hash === h)?.isThreat || false
IsThreat(response, h) ==
    \E e \in response : e.hash = h /\ e.isThreat

\* the ScanResults of one batch, in batch order
MergeBatch(batch, response) ==
    [j \in 1..Len(batch) |->
        [file |-> batch[j], hash |-> hashFile(batch[j]),
         isThreat |-> IsThreat(response, hashFile(batch[j]))]]

ThreatCount(results) ==
    Cardinality({j \in 1..Len(results) : results[j].isThreat})

IsThreatResult(r) == r.isThreat

\* results.filter(r => r.isThreat).map(...) of the completion report
ThreatsPayload(results) ==
    LET threats == SelectSeq(results, IsThreatResult)
    IN  [j \in 1..Len(threats) |->
            [file |-> threats[j].file, fileHash |-> threats[j].hash]]

\* a progress update whose filesScanned is not clamped to the total
ProgressOf_Unclamped(i, totalFiles, threatsFound) ==
    [filesScanned |-> i + BATCH_SIZE,
     totalFiles |-> totalFiles,
     threatsFound |-> threatsFound]

\* the ScanProgress passed to onProgress after the batch of iteration i
ProgressOf(i, totalFiles, threatsFound) ==
    [filesScanned |-> Min(i + BATCH_SIZE, totalFiles),
     totalFiles |-> totalFiles,
     threatsFound |-> threatsFound]

\* the file list the walker returns when its loops ran for `cut' files
Walked(cut) == [j \in 1..cut |-> j]

\* lengths of the list getFilesToScan can return: the whole walk, or, when
\* scanDirectory's loops break on scanCancelled, a prefix of it (here one
\* of the two shortest)
WalkCuts(cancelled) ==
    IF cancelled THEN {c \in {0, 1, Len(fs)} : c <= Len(fs)} ELSE {Len(fs)}

\* ------------------------------------------------------- the directory walk
\* An entry of a directory listing: a file (its size and content
\* fingerprint, "" when it cannot be read), a directory (whether it can be
\* listed, and its entries), or a name that is gone when it is looked at.
FileEntry(id, size, content) ==
    [kind |-> "file", id |-> id, size |-> size, content |-> content,
     listable |-> TRUE, items |-> <<>>]

DirEntry(id, listable, items) ==
    [kind |-> "dir", id |-> id, size |-> 0, content |-> "",
     listable |-> listable, items |-> items]

GoneEntry(id) ==
    [kind |-> "gone", id |-> id, size |-> 0, content |-> "",
     listable |-> TRUE, items |-> <<>>]

\* a walk that drops the files found so far when a listing fails
RECURSIVE scanDirectory_DropsFilesOnError(_, _, _)
RECURSIVE scanDirectory(_, _, _)
RECURSIVE ScanItems(_, _, _, _)
scanDirectory_DropsFilesOnError(dir, files, recursive) ==
    IF dir.kind # "dir" THEN files
    ELSE IF ~dir.listable THEN <<>>
    ELSE ScanItems(dir.items, 1, files, recursive)

\* scanDirectory(dirPath, files, recursive) with the flag never set: the
\* files array after the call. A directory that does not exist returns at
\* line 811; a listing that throws is caught at line 866.
scanDirectory(dir, files, recursive) ==
    IF dir.kind # "dir" THEN files
    ELSE IF ~dir.listable THEN files
    ELSE ScanItems(dir.items, 1, files, recursive)

\* the loop over the listing, from entry k on (lines 817-865): an entry
\* that is a directory is walked when recursive and skipped otherwise (it
\* is no file); a file is pushed when `size && size <= MAX_FILE_SIZE'
ScanItems(items, k, files, recursive) ==
    IF k > Len(items) THEN files
    ELSE LET Pushed(item) == /\ item.kind = "file"
                             /\ item.size # 0
                             /\ item.size <= MAX_FILE_SIZE
             dirs == {j \in k..Len(items) :
                          items[j].kind = "dir" /\ recursive}
             next == IF dirs = {} THEN Len(items) + 1
                     ELSE CHOOSE j \in dirs : \A i \in dirs : j <= i
             sofar == files \o SelectSeq(SubSeq(items, k, next - 1), Pushed)
         IN  IF next > Len(items) THEN sofar
             ELSE ScanItems(items, next + 1,
                            scanDirectory(items[next], sofar, recursive),
                            recursive)

\* the directories getFilesToScan walks (lines 760-771)
ScanRoots(type, d) ==
    IF d.platform = "android" /\ type = "full"
    THEN <<d.document, d.cache, d.download>>
    ELSE <<d.document, d.cache>>

\* the loop over the roots, from root k on
RECURSIVE ScanRootsFrom(_, _, _, _)
ScanRootsFrom(roots, k, files, recursive) ==
    IF k > Len(roots) THEN files
    ELSE ScanRootsFrom(roots, k + 1,
                       scanDirectory(roots[k], files, recursive), recursive)

\* getFilesToScan(type) with the flag never set
getFilesToScan(type, d) ==
    ScanRootsFrom(ScanRoots(type, d), 1, <<>>, type = "full")

\* lengths of the list when the walk stops adding files at the moment the
\* flag is set: the whole list or a prefix of it (here one of the two
\* shortest)
PrefixCuts(n, cancelled) ==
    IF cancelled THEN {c \in {0, 1, n} : c <= n} ELSE {n}

\* sizes around the two tests of `size && size <= MAX_FILE_SIZE'
FileSizes == {0, 1, MAX_FILE_SIZE, MAX_FILE_SIZE + 1}

\* the quarantine root `${Paths.document}/quarantine' (QuarantineService,
\* lines 23-29), holding one threat that was quarantined
QuarantineRoot == DirEntry(5, TRUE, <<FileEntry(51, 1, "bb")>>)

\* a device: Paths.document holds file 11, directory 2 with file 21, a name
\* that is gone, the infected file 13 and the quarantine root; Paths.cache
\* holds one batch of files; Paths.download holds an infected file of the
\* largest size scanned
MkDisk(platform, sizeA, contentA, docListable, subListable, cacheListable) ==
    [platform |-> platform,
     document |->
        DirEntry(1, docListable,
                 <<FileEntry(11, sizeA, contentA),
                   DirEntry(2, subListable, <<FileEntry(21, 1, "aa")>>),
                   GoneEntry(12),
                   FileEntry(13, 1, "bb"),
                   QuarantineRoot>>),
     cache |->
        DirEntry(3, cacheListable,
                 [j \in 1..BATCH_SIZE |-> FileEntry(30 + j, 1, "aa")]),
     download |-> DirEntry(4, TRUE, <<FileEntry(91, MAX_FILE_SIZE, "bb")>>)]

Disks ==
    {MkDisk(pf, sz, ct, dl, sl, cl) :
        pf \in {"android", "ios"}, sz \in FileSizes, ct \in {"aa", ""},
        dl \in BOOLEAN, sl \in BOOLEAN, cl \in BOOLEAN}

\* no device is walked
NoDisk == [platform |-> "none", document |-> GoneEntry(0),
           cache |-> GoneEntry(0), download |-> GoneEntry(0)]

\* done: getFilesToScan has returned; type: its argument; whole: the flag
\* did not cut the walk short; files: the list it returned
NoWalk == [done |-> FALSE, type |-> "none", whole |-> FALSE, files |-> <<>>]

\* ------------------------------------------------------------ sanitizePath
\* A string is a sequence of characters. A character is a 1-tuple holding
\* it; the hex digest of a string x is the one 2-tuple <<"sha256", x>>, so
\* that different inputs have different digests.
Str(cs) == [j \in 1..Len(cs) |-> <<cs[j]>>]

Slash == <<"/">>
Backslash == <<"\\">>
Tilde == Str(<<"~">>)
FileScheme == Str(<<"f", "i", "l", "e", ":", "/", "/">>)
HashedPrefix == Str(<<"h", "a", "s", "h", "e", "d", ":">>)

Digits == {<<"0">>, <<"1">>}

StartsWith(s, t) == Len(s) >= Len(t) /\ SubSeq(s, 1, Len(t)) = t

\* String.prototype.slice(n)
Drop(s, n) == SubSeq(s, n + 1, Len(s))

\* the flag i of the patterns, over the letters of the alphabet used here
Lower(c) == IF c = <<"U">> THEN <<"u">> ELSE c

\* the literal `lit' (lower case) is at position k of s, case ignored
LitAt(s, k, lit) ==
    /\ k + Len(lit) - 1 <= Len(s)
    /\ \A j \in 1..Len(lit) : Lower(s[k + j - 1]) = lit[j]

\* the character classes of the patterns
InClass(c, class) ==
    CASE class = "[^\\\\/]" -> c \notin {Slash, Backslash}
      [] class = "[^\\/]" -> c # Slash
      [] class = "\\d" -> c \in Digits

\* the length of the longest run of characters of the class in s from
\* position k on (a greedy X+)
RunLen(s, k, class) ==
    LET stops == {j \in k..Len(s) : ~InClass(s[j], class)}
    IN  IF stops = {} THEN Len(s) - k + 1
        ELSE (CHOOSE j \in stops : \A i \in stops : j <= i) - k

\* Users[\\/][^\\/]+ at position k of s: the length of the match, or 0
UsersLen(s, k) ==
    LET lit == Str(<<"u", "s", "e", "r", "s">>)
    IN  IF /\ LitAt(s, k, lit)
           /\ k + 5 <= Len(s)
           /\ s[k + 5] \in {Slash, Backslash}
           /\ RunLen(s, k + 6, "[^\\\\/]") > 0
        THEN 6 + RunLen(s, k + 6, "[^\\\\/]") ELSE 0

\* storage\/emulated\/0
StorageLen(s, k) ==
    LET lit == Str(<<"s", "t", "o", "r", "a", "g", "e", "/", "e", "m", "u",
                     "l", "a", "t", "e", "d", "/", "0">>)
    IN  IF LitAt(s, k, lit) THEN Len(lit) ELSE 0

\* data\/user\/\d+
DataUserLen(s, k) ==
    LET lit == Str(<<"d", "a", "t", "a", "/", "u", "s", "e", "r", "/">>)
    IN  IF LitAt(s, k, lit) /\ RunLen(s, k + 10, "\\d") > 0
        THEN 10 + RunLen(s, k + 10, "\\d") ELSE 0

\* data\/data\/[^\/]+
DataDataLen(s, k) ==
    LET lit == Str(<<"d", "a", "t", "a", "/", "d", "a", "t", "a", "/">>)
    IN  IF LitAt(s, k, lit) /\ RunLen(s, k + 10, "[^\\/]") > 0
        THEN 10 + RunLen(s, k + 10, "[^\\/]") ELSE 0

\* the length of the match of the body of a pattern at position k of s
MatchLen(pattern, s, k) ==
    CASE pattern = "Users" -> UsersLen(s, k)
      [] pattern = "storage" -> StorageLen(s, k)
      [] pattern = "data/user" -> DataUserLen(s, k)
      [] pattern = "data/data" -> DataDataLen(s, k)

\* s.replace(/(^|[seps])BODY/i, '$1~'): the leftmost match of the pattern
\* is replaced, once
ReplaceFirst(s, seps, pattern) ==
    LET at == {k \in 1..Len(s) :
                  /\ k = 1 \/ s[k - 1] \in seps
                  /\ MatchLen(pattern, s, k) > 0}
    IN  IF at = {} THEN s
        ELSE LET k == CHOOSE j \in at : \A i \in at : j <= i
             IN  SubSeq(s, 1, k - 1) \o Tilde
                    \o Drop(s, k - 1 + MatchLen(pattern, s, k))

\* filePath.replace(/^file:\/\//, '')
StripFileScheme(s) == IF StartsWith(s, FileScheme) THEN Drop(s, 7) ELSE s

\* parts[parts.length - 1] || normalized, parts = normalized.split(/[/\\]+/)
LastPart(s) ==
    LET seps == {k \in 1..Len(s) : s[k] \in {Slash, Backslash}}
        last == IF seps = {} THEN s
                ELSE Drop(s, CHOOSE k \in seps : \A i \in seps : i <= k)
    IN  IF last = <<>> THEN s ELSE last

\* Crypto.digestStringAsync(SHA256, x, HEX)
Sha256Hex(x) == <<<<"sha256", x>>>>

\* options?.pathSanitization ?? 'home'
ModeOf(options) ==
    IF options.pathSanitization = "undefined" THEN "home"
    ELSE options.pathSanitization

\* the four replacements of mode home, in the order of the code
HomeRedact(s) ==
    LET a == ReplaceFirst(s, {Slash, Backslash}, "Users")
        b == ReplaceFirst(a, {Slash}, "storage")
        c == ReplaceFirst(b, {Slash}, "data/user")
    IN  ReplaceFirst(c, {Slash}, "data/data")

\* sanitizePath(filePath, options); digest is what the digest call does.
\* An undefined root and an undefined salt are the empty string, which the
\* code treats alike.
sanitizePath(filePath, options, digest) ==
    LET normalized == StripFileScheme(filePath)
        mode == ModeOf(options)
        rootNorm == StripFileScheme(options.root)
        rel == Drop(normalized, Len(rootNorm))
        rel1 == IF rel # <<>> /\ rel[1] \in {Slash, Backslash}
                THEN Drop(rel, 1) ELSE rel
    IN  IF filePath = <<>> THEN <<>>
        ELSE IF mode = "none" THEN normalized
        ELSE IF /\ mode = "relative"
                /\ options.root # <<>>
                /\ StartsWith(normalized, rootNorm)
        THEN (IF rel1 = <<>> THEN Str(<<".">>) ELSE rel1)
        ELSE IF mode = "home" THEN HomeRedact(normalized)
        ELSE IF mode = "filename" THEN LastPart(normalized)
        ELSE IF mode = "hashed"
        THEN (IF digest = "ok"
              THEN HashedPrefix \o Sha256Hex(options.hashSalt \o normalized)
              ELSE LastPart(normalized))
        ELSE normalized

\* the pieces of the paths explored: the scheme, the prefixes mode home
\* knows, a path it does not know, and a separator
PathPieces ==
    {FileScheme,
     Str(<<"/", "U", "s", "e", "r", "s", "/", "b", "o", "b">>),
     Str(<<"/", "s", "t", "o", "r", "a", "g", "e", "/", "e", "m", "u", "l",
           "a", "t", "e", "d", "/", "0">>),
     Str(<<"/", "d", "a", "t", "a", "/", "u", "s", "e", "r", "/", "0">>),
     Str(<<"/", "d", "a", "t", "a", "/", "d", "a", "t", "a", "/", "a", "p",
           "p">>),
     Str(<<"/", "v", "a", "r", "/", "x", ".", "a", "p", "k">>),
     Str(<<"/">>)}

RECURSIVE PathsOf(_)
PathsOf(n) ==
    IF n = 0 THEN {<<>>}
    ELSE PathsOf(n - 1)
            \cup {p \o q : p \in PathsOf(n - 1), q \in PathPieces}

FilePaths == PathsOf(MaxPieces)

\* ScanOptions; an absent field is "undefined" (mode) or the empty string
NoOptions == [pathSanitization |-> "undefined", root |-> <<>>,
              hashSalt |-> <<>>]

ScanOptionsSet ==
    {NoOptions}
    \cup {[NoOptions EXCEPT !.pathSanitization = m] :
             m \in {"none", "home", "filename", "hashed", "relative"}}
    \cup {[NoOptions EXCEPT !.pathSanitization = "relative", !.root = r] :
             r \in {Str(<<"/", "d", "a", "t", "a", "/", "u", "s", "e", "r",
                          "/", "0">>),
                    FileScheme \o Str(<<"/", "v", "a", "r">>)}}
    \cup {[NoOptions EXCEPT !.pathSanitization = "hashed",
                            !.hashSalt = Str(<<"s">>)]}

\* no call of sanitizePath made
NoSanitize == [filePath |-> <<>>, options |-> NoOptions, digest |-> "ok",
               returned |-> <<>>]

\* -------------------------------------------------------------- quarantine
\* the paths of the files threats are found in
SourcePaths == {<<"files", "a">>, <<"files", "b">>}

FileHashes == {"h1", "h2"}

\* `${dir.uri}/${fileHash}`
QuarantinePath(fileHash) == <<"quarantine", fileHash>>

QuarantinePaths == {QuarantinePath(h) : h \in FileHashes}

\* the paths a file can have in the quarantine directory: the name of a
\* file there is a hash, or the name of a source file
RootPaths == QuarantinePaths \cup {<<"quarantine", p[2]>> : p \in SourcePaths}

DevicePaths == SourcePaths \cup RootPaths

\* the files of the quarantine directory
Artifacts(files) == {p \in RootPaths : files[p] # "absent"}

\* quarantineId: the identifiers of the records of the backend ledger
QuarantineIds == {"q1", "q2"}

\* what a path holds: the content of a file, or "absent"
Contents == {"x", "y"}

\* outcomes of File.move
MoveOutcomes == {"ok", "throws"}

\* a move that leaves the source in place
Moved_Copies(files, from, to) == [files EXCEPT ![to] = files[from]]

\* the files after sourceFile.move(destinationFile) has succeeded
Moved(files, from, to) ==
    [files EXCEPT ![from] = "absent", ![to] = files[from]]

\* outcomes of deleteQuarantinedFile: those of its request, and of
\* File.delete
DeleteOutcomes == {"ok", "httpError", "network", "deleteThrows"}

\* outcomes of clearAllQuarantine: those of Directory.delete and
\* Directory.create
ClearOutcomes == {"ok", "deleteThrows", "createThrows"}

\* the files after the quarantine directory was deleted
RootDeleted(files) ==
    [p \in DOMAIN files |-> IF p \in RootPaths THEN "absent" ELSE files[p]]

\* outcomes of the report of quarantineFile: those of a collaborator call,
\* and an answer with an error status and a JSON body
QuarantineReportOutcomes == CallOutcomes \cup {"httpError"}

\* no call made: name, pc, the arguments, the value returned, the error
\* thrown, what became of the report, and the files and the number of
\* requests when the call began
NoOp == [name |-> "none", pc |-> "idle", filePath |-> <<>>, fileHash |-> "",
         originalPath |-> <<>>, quarantineId |-> "", value |-> <<>>,
         error |-> "", report |-> "", before |-> <<>>, requestsBefore |-> 0]

\* last: the quarantine the latest calls were about, if nothing else was
\* called since
NoLast == [src |-> <<>>, hash |-> "", content |-> "absent"]

\* dir: the quarantine directory exists
NoQuarantine == [files |-> <<>>, dir |-> FALSE, requests |-> <<>>,
                 op |-> NoOp, last |-> NoLast, ops |-> 0]

\* ------------------------------------------------------ anti-theft device
\* the storage keys of the model: the lock state, a preference, and two
\* of the keys kept in the secure store
STORAGE_KEYS == {"device_locked", "lock_message", "lock_phone_number",
                 "last_scan_time", "device_id", "pin_code"}

SENSITIVE_KEYS == {"device_id", "pin_code"}

\* getItem(key): the value stored, "null" when there is none
getItem(s, key) == s[key]

\* the store after setItem(key, value) has succeeded
setItem(s, key, value) == [s EXCEPT ![key] = value]

\* the store after removeItem(key) has succeeded
removeItem(s, key) == [s EXCEPT ![key] = "null"]

\* outcomes of clear(): AsyncStorage.clear throws and clear() rethrows; or
\* SecureStore.deleteItemAsync throws for the sensitive keys, which is
\* logged as a warning and passed over; or nothing throws
ClearStoreOutcomes == {"ok", "asyncThrows", "secureThrows"}

\* the store after clear()
clear(s, how) ==
    [k \in DOMAIN s |->
        CASE how = "asyncThrows" -> s[k]
          [] how = "secureThrows" /\ k \in SENSITIVE_KEYS -> s[k]
          [] OTHER -> "null"]

\* the store after getDeviceId(): an identifier is generated and stored
\* when there is none
getDeviceId(s) ==
    IF getItem(s, "device_id") = "null"
    THEN setItem(s, "device_id", "generated") ELSE s

isDeviceLocked(s) == getItem(s, "device_locked") = "true"

getLockMessage(s) ==
    IF getItem(s, "lock_message") \in {"null", ""} THEN "Device is locked"
    ELSE getItem(s, "lock_message")

getLockPhoneNumber(s) == getItem(s, "lock_phone_number")

\* command.metadata of a lock command: "" stands for a field not given
LockMessages == {"", "call the owner"}

PhoneNumbers == {"", "555"}

\* const message = command.metadata?.lockMessage || '...'
DefaultLockMessage == "This device has been locked remotely"

MessageOf(lockMessage) ==
    IF lockMessage = "" THEN DefaultLockMessage ELSE lockMessage

\* outcomes of handleLock: the setItem that throws, if any
LockOutcomes == {"ok", "lockedThrows", "messageThrows", "phoneThrows"}

\* outcomes of handleLocate: the permission is denied, or
\* getCurrentPositionAsync throws, or the outcome of the calls after it
LocateOutcomes == {"denied", "position"} \cup CallOutcomes

\* the body of the POST /device/location request (lines 194-205), without
\* the coordinates and the time
LocationReport(deviceId, commandId) ==
    [url |-> "/device/location", deviceId |-> deviceId,
     commandId |-> commandId]

\* outcomes of unlockDevice: removeItem passes over an error
UnlockOutcomes == {"ok", "removeThrows"}

\* outcomes of Directory.delete in the wipe
WipeDeleteOutcomes == {"ok", "throws"}

NoStore == <<>>

\* the latest command or call: its name, position, metadata and outcome,
\* and the store and the quarantine directory when it began; id: the id of
\* the command; requests: the requests its handler has made of the backend;
\* thrown: an error has left the handler
NoCommand == [name |-> "none", pc |-> "idle", lockMessage |-> "",
              phoneNumber |-> "", how |-> "", storeBefore |-> <<>>,
              filesBefore |-> <<>>, dirBefore |-> FALSE,
              id |-> 0, requests |-> <<>>, thrown |-> FALSE]

\* op: the latest command; prompts: the wipe prompts on screen; wipe: the
\* position of the confirmed wipe; ops: the commands so far; restarts: the
\* restarts of the process since the latest command
NoCmd == [op |-> NoCommand, prompts |-> 0, wipe |-> "idle", ops |-> 0,
          restarts |-> 0]

\* an alarm sound: loaded until unloadAsync, playing until stopAsync or
\* unloadAsync; when it started; the calls of stopAsync and unloadAsync
Sound(now) == [loaded |-> TRUE, playing |-> TRUE, started |-> now,
               stopCalls |-> 0, unloadCalls |-> 0]

\* the calls of stopRinging: that of the timer of the i-th ring command,
\* and that of the Stop button of its alert
TimerOf(i) == i

ButtonOf(i) == MaxRings + i

Stoppers == 1..(2 * MaxRings)

\* the step of the clock of the model
TickLength == RING_TIMEOUT \div 3

\* outcomes of Audio.Sound.createAsync
CreateOutcomes == {"ok", "throws"}

\* the two anti-theft services of the repository: the functions of a
\* module with the variable currentSound, and the class AntiTheftService
\* with the field sound, whose stopRinging has no try/catch and which has
\* no cleanup
Services == {"module", "class"}

\* sounds: the sounds created; currentSound: 0 (null) or the index of a
\* sound; stoppers: the position of each call of stopRinging; errors: the
\* errors stopRinging has logged; commands: the ring commands so far;
\* cleanups: the calls of cleanup so far; service: the service that runs;
\* unhandled: the rejections of stopRinging that nothing has caught
NoAlarm == [sounds |-> <<>>, currentSound |-> 0,
            stoppers |-> [s \in Stoppers |-> "idle"],
            now |-> 0, ticks |-> 0, errors |-> 0, commands |-> 0,
            cleanups |-> 0, service |-> "module", unhandled |-> 0]

\* the calls of initialize and cleanup, and the pushes, of a behaviour
MaxInits == 2

MaxDeliveries == 2

\* a push with an anti-theft command: where it is (not yet delivered; given
\* to the foreground handler; shown by the system; tapped) and how often
\* handleCommand has been run for it
NoDelivery == [st |-> "none", executions |-> 0]

\* handler: setNotificationHandler has installed handleNotification;
\* listeners: the response listeners registered, by the call of initialize
\* that added them; notificationSubscription: 0 (null) or the listener the
\* module variable holds; inits, cleanups: the calls so far
NoPush == [handler |-> FALSE, listeners |-> {},
           notificationSubscription |-> 0, inits |-> 0, cleanups |-> 0,
           deliveries |-> [d \in 1..MaxDeliveries |-> NoDelivery]]

\* the callers of getDeviceId: a scan run, for its hash-check requests and
\* its report, and the locate handler
IdCallers == {"scan", "locate"}

\* the calls of getDeviceId one caller makes, one after the other
MaxIdCalls == 2

\* the clears of the store in a behaviour
MaxClears == 1

\* the n-th identifier generated: 16 random bytes in hexadecimal, taken to
\* differ from every other one
FreshId(n) == "g" \o ToString(n)

\* outcomes of SecureStore.getItemAsync in getItem, which answers null
\* when it throws, and of setItem
ReadOutcomes == {"ok", "throws"}

StoreOutcomes == {"ok", "throws"}

\* one caller: the position of its call under way, what that call read or
\* generated, the clears there had been when it began, the calls it has
\* made, and for each call that has returned the identifier with the
\* clears there had been when the call began and when it returned
NoIdCall == [pc |-> "idle", deviceId |-> "null", began |-> 0, calls |-> 0,
             returned |-> <<>>]

Returned(deviceId, began, ended) ==
    [deviceId |-> deviceId, began |-> began, ended |-> ended]

\* generated: the identifiers generated so far; stored: for each one that
\* was stored, the clears there had been; clears: the clears of the store
\* so far; faults: the reads of the store that have failed
NoIdent == [calls |-> [c \in IdCallers |-> NoIdCall], generated |-> 0,
            stored |-> <<>>, clears |-> 0, faults |-> 0]

\* ------------------------------------------------------------------- state
\* st, type, opts, target: the call's position, arguments and the run whose
\* promise it returned or awaits; seen: the runs executing when it was made
NoCall == [st |-> "none", type |-> "none", opts |-> "none", target |-> 0,
           seen |-> {}]

\* files, i, results, threatsFound, error: executeScan's locals; outcome
\* and thrown: how its promise settled; the rest records what the run did:
\* sizes of the batches hashed, hash-check requests sent, onProgress calls,
\* report requests sent, the loop index at which the flag was seen, and the
\* reportError the catch block caught ("" when the failure report went well)
NoRun == [pc |-> "none", files |-> <<>>, i |-> 0, results |-> <<>>,
          threatsFound |-> 0, error |-> "", outcome |-> "none",
          thrown |-> "", batches |-> <<>>, lookups |-> 0, progress |-> <<>>,
          reports |-> <<>>, cancelSeenAt |-> -1, reportError |-> ""]

MkFs(n, infected, unreadable) ==
    [j \in 1..n |-> IF j \in unreadable THEN ""
                    ELSE IF j \in infected THEN "bb" ELSE "aa"]

FileSystems ==
    {MkFs(n, inf, unr) : n \in FileCounts, inf \in InfectedSets,
                         unr \in UnreadableSets}

\* an oracle that flags the sentinel differs only where a file is unreadable
OracleDbs(f) ==
    IF \E j \in 1..Len(f) : f[j] = "" THEN ThreatDbs ELSE {{"bb"}}

\* module state after load (lines 561-563), no call made yet
InitScanState ==
    /\ scanPromise = 0
    /\ currentScanKey = NullKey
    /\ scanCancelled = FALSE
    /\ call = [c \in CallIds |-> NoCall]
    /\ run = [c \in CallIds |-> NoRun]
    /\ numCalls = 0

\* the functions outside the scan orchestration are not called
SanitizeIdle == san = NoSanitize

WalkIdle == disk = NoDisk /\ walk = NoWalk

QuarantineIdle == quar = NoQuarantine

StoreIdle == store = NoStore /\ cmd = NoCmd

AlarmIdle == alarm = NoAlarm

PushIdle == push = NoPush

IdentIdle == ident = NoIdent

DeviceIdle == StoreIdle /\ AlarmIdle /\ PushIdle /\ IdentIdle

OthersIdle == SanitizeIdle /\ WalkIdle /\ QuarantineIdle /\ DeviceIdle

\* no scan is requested
ScanIdle ==
    /\ InitScanState
    /\ callBudget = 0
    /\ fs = <<>>
    /\ threatDb = {}

\* any device of the family, a few callers
Init ==
    /\ InitScanState
    /\ callBudget = MaxCalls
    /\ fs \in FileSystems
    /\ threatDb \in OracleDbs(fs)
    /\ OthersIdle

\* a device with a single clean file, many callers
InitSingleFlight ==
    /\ InitScanState
    /\ callBudget = MaxCallers
    /\ fs = MkFs(1, {}, {})
    /\ threatDb = {"bb"}
    /\ OthersIdle

\* positions of a run between the call of executeScan and the settling of
\* its promise
ExecutingPcs == {"walk", "loop", "lookup", "report", "failreport"}

Executing(r) == run[r].pc \in ExecutingPcs

ExecutingRuns == {r \in CallIds : Executing(r)}

\* the calls suspended at line 609 on the promise of run r
Waiters(r) == {c \in CallIds : call[c].st = "waiting" /\ call[c].target = r}

LastOf(S) == CHOOSE c \in S : \A d \in S : d <= c

\* no settled promise has reactions left to run: the callers' continuations
\* run in the microtask drain of the settling, before any other callback
Drained == \A r \in CallIds : run[r].pc # "settled"

\* a performScan that starts a run without resetting the flag
PerformScan_KeepsFlag(c, type, opts) ==
    /\ Drained
    /\ c = numCalls + 1
    /\ c <= callBudget
    /\ numCalls' = c
    /\ IF scanPromise # 0 /\ currentScanKey = ScanKey(type, opts)
       THEN \* return scanPromise
            /\ call' = [call EXCEPT ![c] = [st |-> "joined", type |-> type,
                                            opts |-> opts,
                                            target |-> scanPromise,
                                            seen |-> ExecutingRuns]]
            /\ UNCHANGED <<scanPromise, currentScanKey, scanCancelled, run>>
       ELSE IF scanPromise # 0
       THEN \* cancelScan(); await scanPromise.catch(() => {})
            /\ scanCancelled' = TRUE
            /\ call' = [call EXCEPT ![c] = [st |-> "waiting", type |-> type,
                                            opts |-> opts,
                                            target |-> scanPromise,
                                            seen |-> ExecutingRuns]]
            /\ UNCHANGED <<scanPromise, currentScanKey, run>>
       ELSE /\ call' = [call EXCEPT ![c] = [st |-> "owner", type |-> type,
                                            opts |-> opts, target |-> c,
                                            seen |-> ExecutingRuns]]
            /\ scanCancelled' = scanCancelled
            /\ currentScanKey' = ScanKey(type, opts)
            /\ scanPromise' = c
            /\ run' = [run EXCEPT ![c] = [NoRun EXCEPT !.pc = "walk"]]
    /\ UNCHANGED <<callBudget, fs, threatDb>>
    /\ UNCHANGED otherVars

\* ----------------------------------------------------------------- actions
\* a caller invokes quickScan or fullScan: performScan up to its first
\* await (lines 600-617); a call that finds no promise resets the flag,
\* publishes its key and promise and runs executeScan up to the first await
\* of the directory walk
PerformScan(c, type, opts) ==
    /\ Drained
    /\ c = numCalls + 1
    /\ c <= callBudget
    /\ numCalls' = c
    /\ IF scanPromise # 0 /\ currentScanKey = ScanKey(type, opts)
       THEN \* return scanPromise
            /\ call' = [call EXCEPT ![c] = [st |-> "joined", type |-> type,
                                            opts |-> opts,
                                            target |-> scanPromise,
                                            seen |-> ExecutingRuns]]
            /\ UNCHANGED <<scanPromise, currentScanKey, scanCancelled, run>>
       ELSE IF scanPromise # 0
       THEN \* cancelScan(); await scanPromise.catch(() => {})
            /\ scanCancelled' = TRUE
            /\ call' = [call EXCEPT ![c] = [st |-> "waiting", type |-> type,
                                            opts |-> opts,
                                            target |-> scanPromise,
                                            seen |-> ExecutingRuns]]
            /\ UNCHANGED <<scanPromise, currentScanKey, run>>
       ELSE /\ call' = [call EXCEPT ![c] = [st |-> "owner", type |-> type,
                                            opts |-> opts, target |-> c,
                                            seen |-> ExecutingRuns]]
            /\ scanCancelled' = FALSE
            /\ currentScanKey' = ScanKey(type, opts)
            /\ scanPromise' = c
            /\ run' = [run EXCEPT ![c] = [NoRun EXCEPT !.pc = "walk"]]
    /\ UNCHANGED <<callBudget, fs, threatDb>>
    /\ UNCHANGED otherVars

\* cancelScan()
CancelScan ==
    /\ Drained
    /\ scanCancelled' = TRUE
    /\ UNCHANGED <<scanPromise, currentScanKey, call, run, numCalls,
                   callBudget, fs, threatDb>>
    /\ UNCHANGED otherVars

\* getFilesToScan returns: executeScan lines 637-638
WalkDone(r) ==
    /\ Drained
    /\ run[r].pc = "walk"
    /\ \E cut \in WalkCuts(scanCancelled) :
          run' = [run EXCEPT ![r].files = Walked(cut), ![r].pc = "loop"]
    /\ UNCHANGED <<scanPromise, currentScanKey, scanCancelled, call,
                   numCalls, callBudget, fs, threatDb>>
    /\ UNCHANGED otherVars

\* a loop that looks at the cancellation flag only after hashing the batch
BatchTop_HashesBeforeCheck(r) ==
    /\ Drained
    /\ run[r].pc = "loop"
    /\ IF run[r].i >= Len(run[r].files)
       THEN run' = [run EXCEPT ![r].pc = "report"]
       ELSE IF scanCancelled
       THEN run' = [run EXCEPT
                ![r].pc = "failreport",
                ![r].error = "Scan cancelled by user",
                ![r].cancelSeenAt = run[r].i,
                ![r].batches =
                    Append(@, Len(BatchOf(run[r].files, run[r].i)))]
       ELSE run' = [run EXCEPT
                ![r].pc = "lookup",
                ![r].batches =
                    Append(@, Len(BatchOf(run[r].files, run[r].i)))]
    /\ UNCHANGED <<scanPromise, currentScanKey, scanCancelled, call,
                   numCalls, callBudget, fs, threatDb>>
    /\ UNCHANGED otherVars

\* a loop that hashes and looks up two batches at once
BatchTop_TwoBatchesAtOnce(r) ==
    /\ Drained
    /\ run[r].pc = "loop"
    /\ IF run[r].i >= Len(run[r].files)
       THEN run' = [run EXCEPT ![r].pc = "report"]
       ELSE IF scanCancelled
       THEN run' = [run EXCEPT ![r].pc = "failreport",
                               ![r].error = "Scan cancelled by user",
                               ![r].cancelSeenAt = run[r].i]
       ELSE run' = [run EXCEPT
                ![r].pc = "lookup",
                ![r].batches =
                    Append(Append(@, Len(BatchOf(run[r].files, run[r].i))),
                           Len(BatchOf(run[r].files,
                                       run[r].i + BATCH_SIZE)))]
    /\ UNCHANGED <<scanPromise, currentScanKey, scanCancelled, call,
                   numCalls, callBudget, fs, threatDb>>
    /\ UNCHANGED otherVars

\* the loop test and the top of one batch iteration (lines 640-658), after
\* the walk or after delay(100): leave the loop and send the completion
\* report, throw on the cancellation flag, or hash the batch and send its
\* hash-check request
BatchTop(r) ==
    /\ Drained
    /\ run[r].pc = "loop"
    /\ IF run[r].i >= Len(run[r].files)
       THEN run' = [run EXCEPT ![r].pc = "report"]
       ELSE IF scanCancelled
       THEN run' = [run EXCEPT ![r].pc = "failreport",
                               ![r].error = "Scan cancelled by user",
                               ![r].cancelSeenAt = run[r].i]
       ELSE run' = [run EXCEPT
                ![r].pc = "lookup",
                ![r].batches =
                    Append(@, Len(BatchOf(run[r].files, run[r].i)))]
    /\ UNCHANGED <<scanPromise, currentScanKey, scanCancelled, call,
                   numCalls, callBudget, fs, threatDb>>
    /\ UNCHANGED otherVars

\* the hash-check call of the batch returns or throws (lines 651-692):
\* getDeviceId throws before the request is sent, the request fails, or the
\* answer is merged into the results and onProgress is called
LookupReturn(r, how) ==
    /\ Drained
    /\ run[r].pc = "lookup"
    /\ LET batch == BatchOf(run[r].files, run[r].i)
           merged == MergeBatch(batch, HashCheck([j \in 1..Len(batch) |->
                                                    hashFile(batch[j])]))
           found == run[r].threatsFound + ThreatCount(merged)
       IN  CASE how = "ok" ->
                  run' = [run EXCEPT
                      ![r].lookups = @ + 1,
                      ![r].results = @ \o merged,
                      ![r].threatsFound = found,
                      ![r].progress =
                          Append(@, ProgressOf(run[r].i, Len(run[r].files),
                                               found)),
                      ![r].i = @ + BATCH_SIZE,
                      ![r].pc = "loop"]
             [] how = "network" ->
                  run' = [run EXCEPT ![r].lookups = @ + 1,
                                     ![r].error = "hash-check failed",
                                     ![r].pc = "failreport"]
             [] how = "deviceId" ->
                  run' = [run EXCEPT ![r].error = "Failed to get device ID",
                                     ![r].pc = "failreport"]
    /\ UNCHANGED <<scanPromise, currentScanKey, scanCancelled, call,
                   numCalls, callBudget, fs, threatDb>>
    /\ UNCHANGED otherVars

\* the promise of run r settles, leaving the run as `ended'. The reactions
\* registered on the promise run in the same microtask drain, in the order
\* of their registration and before any other callback of the program:
\* executeScan's finally (line 750), the finally of the owner's performScan
\* (lines 618-621), then every call suspended at line 609, in call order,
\* which goes on at lines 612-614 without looking at scanPromise again
Settle(r, ended) ==
    LET ws == Waiters(r)
    IN  /\ scanCancelled' = FALSE
        /\ scanPromise' = IF ws = {} THEN 0 ELSE LastOf(ws)
        /\ currentScanKey' =
              IF ws = {} THEN NullKey
              ELSE ScanKey(call[LastOf(ws)].type, call[LastOf(ws)].opts)
        /\ call' = [c \in CallIds |->
                      IF c \in ws
                      THEN [call[c] EXCEPT !.st = "owner", !.target = c]
                      ELSE call[c]]
        /\ run' = [c \in CallIds |->
                      IF c = r THEN ended
                      ELSE IF c \in ws THEN [NoRun EXCEPT !.pc = "walk"]
                      ELSE run[c]]
        /\ UNCHANGED <<numCalls, callBudget, fs, threatDb>>
        /\ UNCHANGED otherVars

\* a completion report that counts up to the loop index
CompletedReport_LoopIndex(r) ==
    [status |-> "completed", filesScanned |-> run[r].i,
     threatsFound |-> run[r].threatsFound,
     threats |-> ThreatsPayload(run[r].results), error |-> ""]

\* body of the completion report (lines 714-723); error is "" for absent
CompletedReport(r) ==
    [status |-> "completed", filesScanned |-> Len(run[r].files),
     threatsFound |-> run[r].threatsFound,
     threats |-> ThreatsPayload(run[r].results), error |-> ""]

\* body of the failure report (lines 735-742), which names no counts and
\* no threats
FailedReport(r) ==
    [status |-> "failed", filesScanned |-> 0, threatsFound |-> 0,
     threats |-> <<>>, error |-> run[r].error]

\* the completion report call returns or throws (lines 695-726)
ReportReturn(r, how) ==
    /\ Drained
    /\ run[r].pc = "report"
    /\ CASE how = "ok" ->
              Settle(r, [run[r] EXCEPT
                            !.reports = Append(@, CompletedReport(r)),
                            !.outcome = "completed",
                            !.pc = "settled"])
         [] how = "network" ->
              /\ run' = [run EXCEPT
                     ![r].reports = Append(@, CompletedReport(r)),
                     ![r].error = "scan report failed",
                     ![r].pc = "failreport"]
              /\ UNCHANGED <<scanPromise, currentScanKey, scanCancelled,
                             call, numCalls, callBudget, fs, threatDb>>
              /\ UNCHANGED otherVars
         [] how = "deviceId" ->
              /\ run' = [run EXCEPT ![r].error = "Failed to get device ID",
                                    ![r].pc = "failreport"]
              /\ UNCHANGED <<scanPromise, currentScanKey, scanCancelled,
                             call, numCalls, callBudget, fs, threatDb>>
              /\ UNCHANGED otherVars

\* the outcome a caller sees for the error executeScan rethrows
OutcomeOf(error) ==
    IF error = "Scan cancelled by user" THEN "cancelled" ELSE "failed"

\* the reportError caught at line 744 for an outcome of the failure report
ReportErrorOf(how) ==
    CASE how = "ok" -> ""
      [] how = "network" -> "scan report failed"
      [] how = "deviceId" -> "Failed to get device ID"

\* a catch block that lets the error of its own failure report escape
FailReportReturn_ThrowsReportError(r, how) ==
    /\ Drained
    /\ run[r].pc = "failreport"
    /\ Settle(r, [run[r] EXCEPT
                     !.reports = IF how = "deviceId" THEN @
                                 ELSE Append(@, FailedReport(r)),
                     !.reportError = ReportErrorOf(how),
                     !.outcome = OutcomeOf(run[r].error),
                     !.thrown = IF how = "ok" THEN run[r].error
                                ELSE ReportErrorOf(how),
                     !.pc = "settled"])

\* the catch block (lines 727-748): the failure report is tried once; the
\* request is sent unless getDeviceId throws while its body is built; it
\* returns or throws, and reportError is caught; then the original error is
\* rethrown
FailReportReturn(r, how) ==
    /\ Drained
    /\ run[r].pc = "failreport"
    /\ Settle(r, [run[r] EXCEPT
                     !.reports = IF how = "deviceId" THEN @
                                 ELSE Append(@, FailedReport(r)),
                     !.reportError = ReportErrorOf(how),
                     !.outcome = OutcomeOf(run[r].error),
                     !.thrown = run[r].error,
                     !.pc = "settled"])

\* the outcome reaches the callers that hold the promise of run r, the owner
\* and the joined calls; the run's results and records are released
Deliver(r) ==
    /\ run[r].pc = "settled"
    /\ run' = [run EXCEPT ![r] = [NoRun EXCEPT !.pc = "done"]]
    /\ call' = [c \in CallIds |->
                  IF c = r \/ (call[c].st = "joined" /\ call[c].target = r)
                  THEN [NoCall EXCEPT !.st = "returned"]
                  ELSE call[c]]
    /\ UNCHANGED <<scanPromise, currentScanKey, scanCancelled, numCalls,
                   callBudget, fs, threatDb>>
    /\ UNCHANGED otherVars

Next ==
    \/ \E c \in CallIds, p \in ScanParams : PerformScan(c, p[1], p[2])
    \/ CancelScan
    \/ \E r \in CallIds : WalkDone(r)
    \/ \E r \in CallIds : BatchTop(r)
    \/ \E r \in CallIds, how \in CallOutcomes : LookupReturn(r, how)
    \/ \E r \in CallIds, how \in CallOutcomes : ReportReturn(r, how)
    \/ \E r \in CallIds, how \in CallOutcomes : FailReportReturn(r, how)
    \/ \E r \in CallIds : Deliver(r)

Spec == Init /\ [][Next]_vars

SingleFlightSpec == InitSingleFlight /\ [][Next]_vars

\* ------------------------------------------- a scan after a stale cancel
\* cancelScan() was called while no scan was running; then one scan is
\* requested, and cancelScan is not called again
InitStaleCancel ==
    /\ scanPromise = 0
    /\ currentScanKey = NullKey
    /\ scanCancelled = TRUE
    /\ call = [c \in CallIds |-> NoCall]
    /\ run = [c \in CallIds |-> NoRun]
    /\ numCalls = 0
    /\ callBudget = 1
    /\ fs \in FileSystems
    /\ threatDb \in OracleDbs(fs)
    /\ OthersIdle

StaleCancelNext ==
    \/ \E c \in CallIds, p \in ScanParams : PerformScan(c, p[1], p[2])
    \/ \E r \in CallIds : WalkDone(r)
    \/ \E r \in CallIds : BatchTop(r)
    \/ \E r \in CallIds, how \in CallOutcomes : LookupReturn(r, how)
    \/ \E r \in CallIds, how \in CallOutcomes : ReportReturn(r, how)
    \/ \E r \in CallIds, how \in CallOutcomes : FailReportReturn(r, how)
    \/ \E r \in CallIds : Deliver(r)

StaleCancelSpec == InitStaleCancel /\ [][StaleCancelNext]_vars

\* ------------------------------------------------ a scan of a walked device
\* a device of the family, whose directories the scan walks
InitWalk ==
    /\ InitScanState
    /\ callBudget = MaxWalkCalls
    /\ fs = <<>>
    /\ threatDb = {"bb"}
    /\ SanitizeIdle
    /\ QuarantineIdle
    /\ DeviceIdle
    /\ disk \in Disks
    /\ walk = NoWalk

\* getFilesToScan returns (executeScan lines 637-638) what the walk of the
\* device found; the files hash to their content fingerprints
WalkDisk(r) ==
    /\ Drained
    /\ run[r].pc = "walk"
    /\ LET full == getFilesToScan(call[r].type, disk)
       IN  \E cut \in PrefixCuts(Len(full), scanCancelled) :
              /\ walk' = [done |-> TRUE, type |-> call[r].type,
                          whole |-> (cut = Len(full)),
                          files |-> SubSeq(full, 1, cut)]
              /\ fs' = [j \in 1..cut |-> full[j].content]
              /\ run' = [run EXCEPT ![r].files = Walked(cut),
                                    ![r].pc = "loop"]
    /\ UNCHANGED <<scanPromise, currentScanKey, scanCancelled, call,
                   numCalls, callBudget, threatDb, san, disk, quar,
                   deviceVars>>

WalkNext ==
    \/ \E c \in CallIds, p \in ScanParams : PerformScan(c, p[1], p[2])
    \/ CancelScan
    \/ \E r \in CallIds : WalkDisk(r)
    \/ \E r \in CallIds : BatchTop(r)
    \/ \E r \in CallIds, how \in CallOutcomes : LookupReturn(r, how)
    \/ \E r \in CallIds, how \in CallOutcomes : ReportReturn(r, how)
    \/ \E r \in CallIds, how \in CallOutcomes : FailReportReturn(r, how)
    \/ \E r \in CallIds : Deliver(r)

WalkSpec == InitWalk /\ [][WalkNext]_vars

\* -------------------------------------------------- quarantine and restore
\* some source files exist, the quarantine directory is empty
InitQuarantine ==
    /\ ScanIdle
    /\ WalkIdle
    /\ SanitizeIdle
    /\ DeviceIdle
    /\ \E a \in Contents \cup {"absent"}, b \in Contents \cup {"absent"} :
          quar = [NoQuarantine EXCEPT
                     !.dir = TRUE,
                     !.files = [p \in DevicePaths |->
                                  IF p = <<"files", "a">> THEN a
                                  ELSE IF p = <<"files", "b">> THEN b
                                  ELSE "absent"]]

\* the call before has returned or thrown
QuarantineReady ==
    /\ quar.op.pc \in {"idle", "returned", "threw"}
    /\ quar.ops < MaxQuarantineOps

\* isFileQuarantined(fileHash)
isFileQuarantined(fileHash) == quar.files[QuarantinePath(fileHash)] # "absent"

\* a quarantineFile that moves without looking whether the source exists
QuarantineFile_NoExistsCheck(filePath, fileHash, how) ==
    /\ QuarantineReady
    /\ LET op == [NoOp EXCEPT !.name = "quarantine", !.filePath = filePath,
                              !.fileHash = fileHash, !.before = quar.files,
                              !.requestsBefore = Len(quar.requests)]
       IN  IF how = "throws" \/ quar.files[filePath] = "absent"
           THEN quar' = [quar EXCEPT
                    !.ops = @ + 1, !.last = NoLast,
                    !.op = [op EXCEPT !.pc = "threw",
                                      !.error = "move failed"]]
           ELSE quar' = [quar EXCEPT
                    !.ops = @ + 1, !.last = NoLast,
                    !.files = Moved(@, filePath, QuarantinePath(fileHash)),
                    !.dir = TRUE,
                    !.op = [op EXCEPT !.pc = "moved"]]
    /\ UNCHANGED <<scanVars, san, disk, walk, deviceVars>>

\* a quarantineFile that names the quarantined file after the source file
QuarantineFile_NamedAfterFile(filePath, fileHash, how) ==
    /\ QuarantineReady
    /\ LET op == [NoOp EXCEPT !.name = "quarantine", !.filePath = filePath,
                              !.fileHash = fileHash, !.before = quar.files,
                              !.requestsBefore = Len(quar.requests)]
       IN  IF quar.files[filePath] = "absent"
           THEN quar' = [quar EXCEPT
                    !.ops = @ + 1, !.last = NoLast,
                    !.op = [op EXCEPT !.pc = "threw",
                                      !.error = "File does not exist"]]
           ELSE IF how = "throws"
           THEN quar' = [quar EXCEPT
                    !.ops = @ + 1, !.last = NoLast,
                    !.op = [op EXCEPT !.pc = "threw",
                                      !.error = "move failed"]]
           ELSE quar' = [quar EXCEPT
                    !.ops = @ + 1, !.last = NoLast,
                    !.files = Moved(@, filePath, <<"quarantine", filePath[2]>>),
                    !.dir = TRUE,
                    !.op = [op EXCEPT !.pc = "moved"]]
    /\ UNCHANGED <<scanVars, san, disk, walk, deviceVars>>

\* quarantineFile up to the move (lines 60-76): the source must exist;
\* the move succeeds or throws
QuarantineFile(filePath, fileHash, how) ==
    /\ QuarantineReady
    /\ LET op == [NoOp EXCEPT !.name = "quarantine", !.filePath = filePath,
                              !.fileHash = fileHash, !.before = quar.files,
                              !.requestsBefore = Len(quar.requests)]
       IN  IF quar.files[filePath] = "absent"
           THEN quar' = [quar EXCEPT
                    !.ops = @ + 1, !.last = NoLast,
                    !.op = [op EXCEPT !.pc = "threw",
                                      !.error = "File does not exist"]]
           ELSE IF how = "throws"
           THEN quar' = [quar EXCEPT
                    !.ops = @ + 1, !.last = NoLast,
                    !.op = [op EXCEPT !.pc = "threw",
                                      !.error = "move failed"]]
           ELSE quar' = [quar EXCEPT
                    !.ops = @ + 1, !.last = NoLast,
                    !.files = Moved(@, filePath, QuarantinePath(fileHash)),
                    !.dir = TRUE,
                    !.op = [op EXCEPT !.pc = "moved"]]
    /\ UNCHANGED <<scanVars, san, disk, walk, deviceVars>>

\* the body of the request that records the quarantine (lines 82-99)
QuarantineEvent(op) ==
    [fileHash |-> op.fileHash, filePath |-> QuarantinePath(op.fileHash)]

\* quarantineFile after the move (lines 78-108): getDeviceId throws before
\* the request is sent; or the request is sent and fetch rejects or the
\* body of the answer is no JSON, which throws; or the answer is JSON, with
\* a success status or an error status, which the code does not look at,
\* and the quarantine path is returned; an error is logged and rethrown
QuarantineReport(how) ==
    /\ quar.op.name = "quarantine"
    /\ quar.op.pc = "moved"
    /\ LET op == [quar.op EXCEPT !.report = how]
           here == [src |-> op.filePath, hash |-> op.fileHash,
                    content |-> op.before[op.filePath]]
       IN  CASE how \in {"ok", "httpError"} ->
                  quar' = [quar EXCEPT
                      !.requests = Append(@, QuarantineEvent(op)),
                      !.last = here,
                      !.op = [op EXCEPT
                                 !.pc = "returned",
                                 !.value = QuarantinePath(op.fileHash)]]
             [] how = "network" ->
                  quar' = [quar EXCEPT
                      !.requests = Append(@, QuarantineEvent(op)),
                      !.last = here,
                      !.op = [op EXCEPT !.pc = "threw",
                                        !.error = "quarantine report failed"]]
             [] how = "deviceId" ->
                  quar' = [quar EXCEPT
                      !.last = here,
                      !.op = [op EXCEPT !.pc = "threw",
                                        !.error = "Failed to get device ID"]]
    /\ UNCHANGED <<scanVars, san, disk, walk, deviceVars>>

\* a restoreQuarantinedFile that copies the file back
RestoreQuarantinedFile_Copies(filePath, originalPath, how) ==
    /\ QuarantineReady
    /\ LET op == [NoOp EXCEPT !.name = "restore", !.filePath = filePath,
                              !.originalPath = originalPath,
                              !.before = quar.files,
                              !.requestsBefore = Len(quar.requests)]
       IN  IF quar.files[filePath] = "absent"
           THEN quar' = [quar EXCEPT
                    !.ops = @ + 1,
                    !.op = [op EXCEPT
                               !.pc = "threw",
                               !.error = "Quarantined file does not exist"]]
           ELSE IF how = "throws"
           THEN quar' = [quar EXCEPT
                    !.ops = @ + 1,
                    !.op = [op EXCEPT !.pc = "threw",
                                      !.error = "move failed"]]
           ELSE quar' = [quar EXCEPT
                    !.ops = @ + 1,
                    !.files = [@ EXCEPT ![originalPath] = quar.files[filePath]],
                    !.op = [op EXCEPT !.pc = "returned"]]
    /\ UNCHANGED <<scanVars, san, disk, walk, deviceVars>>

\* restoreQuarantinedFile(filePath, originalPath) (lines 201-222): the
\* quarantined file must exist; the move back succeeds or throws; the
\* backend is not contacted
RestoreQuarantinedFile(filePath, originalPath, how) ==
    /\ QuarantineReady
    /\ LET op == [NoOp EXCEPT !.name = "restore", !.filePath = filePath,
                              !.originalPath = originalPath,
                              !.before = quar.files,
                              !.requestsBefore = Len(quar.requests)]
       IN  IF quar.files[filePath] = "absent"
           THEN quar' = [quar EXCEPT
                    !.ops = @ + 1,
                    !.op = [op EXCEPT
                               !.pc = "threw",
                               !.error = "Quarantined file does not exist"]]
           ELSE IF how = "throws"
           THEN quar' = [quar EXCEPT
                    !.ops = @ + 1,
                    !.op = [op EXCEPT !.pc = "threw",
                                      !.error = "move failed"]]
           ELSE quar' = [quar EXCEPT
                    !.ops = @ + 1,
                    !.files = Moved(@, filePath, originalPath),
                    !.op = [op EXCEPT !.pc = "returned"]]
    /\ UNCHANGED <<scanVars, san, disk, walk, deviceVars>>

\* the body of the request that records the deletion (lines 183-189)
QuarantineDelete(quarantineId) ==
    [url |-> "/quarantine/delete", quarantineId |-> quarantineId]

\* a deleteQuarantinedFile that takes a missing file for an error
DeleteQuarantinedFile_RequiresFile(quarantineId, filePath, how) ==
    /\ QuarantineReady
    /\ how = "deleteThrows" => quar.files[filePath] # "absent"
    /\ LET op == [NoOp EXCEPT !.name = "delete", !.filePath = filePath,
                              !.quarantineId = quarantineId,
                              !.report = how, !.before = quar.files,
                              !.requestsBefore = Len(quar.requests)]
       IN  IF how = "deleteThrows" \/ quar.files[filePath] = "absent"
           THEN quar' = [quar EXCEPT
                    !.ops = @ + 1, !.last = NoLast,
                    !.op = [op EXCEPT !.pc = "threw",
                                      !.error = "delete failed"]]
           ELSE quar' = [quar EXCEPT
                    !.ops = @ + 1, !.last = NoLast,
                    !.files = [@ EXCEPT ![filePath] = "absent"],
                    !.requests = Append(@, QuarantineDelete(quarantineId)),
                    !.op = IF how = "network"
                           THEN [op EXCEPT !.pc = "threw",
                                    !.error = "quarantine delete failed"]
                           ELSE [op EXCEPT !.pc = "returned"]]
    /\ UNCHANGED <<scanVars, san, disk, walk, deviceVars>>

\* deleteQuarantinedFile(quarantineId, filePath) (lines 170-196): the file
\* is deleted if it exists, which can throw; then the request is sent, and
\* fetch rejects or the body of the answer is no JSON, which throws, or
\* the answer is JSON, with a success status or an error status, which the
\* code does not look at; an error is logged and rethrown
DeleteQuarantinedFile(quarantineId, filePath, how) ==
    /\ QuarantineReady
    /\ how = "deleteThrows" => quar.files[filePath] # "absent"
    /\ LET op == [NoOp EXCEPT !.name = "delete", !.filePath = filePath,
                              !.quarantineId = quarantineId,
                              !.report = how, !.before = quar.files,
                              !.requestsBefore = Len(quar.requests)]
       IN  IF how = "deleteThrows"
           THEN quar' = [quar EXCEPT
                    !.ops = @ + 1, !.last = NoLast,
                    !.op = [op EXCEPT !.pc = "threw",
                                      !.error = "delete failed"]]
           ELSE quar' = [quar EXCEPT
                    !.ops = @ + 1, !.last = NoLast,
                    !.files = [@ EXCEPT ![filePath] = "absent"],
                    !.requests = Append(@, QuarantineDelete(quarantineId)),
                    !.op = IF how = "network"
                           THEN [op EXCEPT !.pc = "threw",
                                    !.error = "quarantine delete failed"]
                           ELSE [op EXCEPT !.pc = "returned"]]
    /\ UNCHANGED <<scanVars, san, disk, walk, deviceVars>>

\* clearAllQuarantine() (lines 248-265): the quarantine directory is
\* deleted with its files if it exists, then created again; either can
\* throw, and an error is logged and rethrown; no request is sent
ClearAllQuarantine(how) ==
    /\ QuarantineReady
    /\ how = "deleteThrows" => quar.dir
    /\ LET op == [NoOp EXCEPT !.name = "clearAll", !.report = how,
                              !.before = quar.files,
                              !.requestsBefore = Len(quar.requests)]
       IN  CASE how = "deleteThrows" ->
                  quar' = [quar EXCEPT
                      !.ops = @ + 1, !.last = NoLast,
                      !.op = [op EXCEPT !.pc = "threw",
                                        !.error = "delete failed"]]
             [] how = "createThrows" ->
                  quar' = [quar EXCEPT
                      !.ops = @ + 1, !.last = NoLast,
                      !.files = RootDeleted(@),
                      !.dir = FALSE,
                      !.op = [op EXCEPT !.pc = "threw",
                                        !.error = "create failed"]]
             [] how = "ok" ->
                  quar' = [quar EXCEPT
                      !.ops = @ + 1, !.last = NoLast,
                      !.files = RootDeleted(@),
                      !.dir = TRUE,
                      !.op = [op EXCEPT !.pc = "returned"]]
    /\ UNCHANGED <<scanVars, san, disk, walk, deviceVars>>

QuarantineNext ==
    \/ \E p \in SourcePaths, h \in FileHashes, how \in MoveOutcomes :
          QuarantineFile(p, h, how)
    \/ \E how \in QuarantineReportOutcomes : QuarantineReport(how)
    \/ \E q \in QuarantinePaths, p \in SourcePaths, how \in MoveOutcomes :
          RestoreQuarantinedFile(q, p, how)
    \/ \E id \in QuarantineIds, q \in QuarantinePaths, how \in DeleteOutcomes :
          DeleteQuarantinedFile(id, q, how)
    \/ \E how \in ClearOutcomes : ClearAllQuarantine(how)

QuarantineSpec == InitQuarantine /\ [][QuarantineNext]_vars

\* --------------------------------------------- sanitizePath, applied again
\* sanitizePath is called on a path, then on what it returned
InitSanitize ==
    /\ ScanIdle
    /\ WalkIdle
    /\ QuarantineIdle
    /\ DeviceIdle
    /\ \E p \in FilePaths, o \in ScanOptionsSet :
          \E d \in (IF ModeOf(o) = "hashed" THEN DigestOutcomes ELSE {"ok"}) :
             san = [NoSanitize EXCEPT !.filePath = p, !.options = o,
                                      !.digest = d]

SanitizePath ==
    /\ Len(san.returned) < MaxApplications
    /\ LET arg == IF san.returned = <<>> THEN san.filePath
                  ELSE san.returned[Len(san.returned)]
       IN  san' = [san EXCEPT !.returned =
                      Append(@, sanitizePath(arg, san.options, san.digest))]
    /\ UNCHANGED <<scanVars, disk, walk, quar, deviceVars>>

SanitizeNext == SanitizePath

SanitizeSpec == InitSanitize /\ [][SanitizeNext]_vars

\* ---------------------------------------------- lock, locate, wipe, unlock
\* a device that was never locked, with or without a device identifier, a
\* PIN, a scan time and a quarantined file
InitStores ==
    {[k \in STORAGE_KEYS |->
         CASE k = "device_id" -> d
           [] k = "pin_code" -> p
           [] k = "last_scan_time" -> t
           [] OTHER -> "null"] :
       d \in {"null", "d0"}, p \in {"null", "pinhash"},
       t \in {"null", "1700000000"}}

InitDevice ==
    /\ ScanIdle
    /\ WalkIdle
    /\ SanitizeIdle
    /\ AlarmIdle
    /\ PushIdle
    /\ IdentIdle
    /\ cmd = NoCmd
    /\ store \in InitStores
    /\ \E a \in {"absent", "x"}, d \in BOOLEAN :
          /\ a # "absent" => d
          /\ quar = [NoQuarantine EXCEPT
                        !.dir = d,
                        !.files = [p \in DevicePaths |->
                                     IF p = QuarantinePath("h1") THEN a
                                     ELSE "absent"]]

\* a command can be handled: the confirmed wipe is not between its awaits
DeviceReady ==
    /\ cmd.ops < MaxCommands
    /\ cmd.wipe # "cleared"

\* the record of a command that begins now
Begin(name) ==
    [NoCommand EXCEPT !.name = name, !.storeBefore = store,
                      !.filesBefore = quar.files, !.dirBefore = quar.dir,
                      !.id = cmd.ops + 1]

\* a handleLocate that sends the position without asking the permission
HandleLocate_IgnoresDenial(how) ==
    /\ DeviceReady
    /\ store' = IF how \in {"ok", "network", "denied"}
                THEN getDeviceId(store) ELSE store
    /\ cmd' = [cmd EXCEPT
          !.ops = @ + 1, !.restarts = 0,
          !.op = [Begin("locate") EXCEPT
                     !.how = how,
                     !.requests =
                        IF how \in {"ok", "network", "denied"}
                        THEN <<LocationReport(
                                  getItem(getDeviceId(store), "device_id"),
                                  cmd.ops + 1)>>
                        ELSE <<>>,
                     !.pc = CASE how = "ok" -> "sent"
                              [] how = "denied" -> "denied"
                              [] OTHER -> "failed"]]
    /\ UNCHANGED <<scanVars, san, disk, walk, quar, alarm, push, ident>>

\* handleLocate (lines 178-211): without the permission nothing is done;
\* else the position is read, getDeviceId stores an identifier if there is
\* none, and one request is made; an error of any of these is caught and
\* logged (lines 208-210)
HandleLocate(how) ==
    /\ DeviceReady
    /\ store' = IF how \in {"ok", "network"} THEN getDeviceId(store)
                ELSE store
    /\ cmd' = [cmd EXCEPT
          !.ops = @ + 1, !.restarts = 0,
          !.op = [Begin("locate") EXCEPT
                     !.how = how,
                     !.requests =
                        IF how \in {"ok", "network"}
                        THEN <<LocationReport(
                                  getItem(getDeviceId(store), "device_id"),
                                  cmd.ops + 1)>>
                        ELSE <<>>,
                     !.pc = CASE how = "ok" -> "sent"
                              [] how = "denied" -> "denied"
                              [] OTHER -> "failed"]]
    /\ UNCHANGED <<scanVars, san, disk, walk, quar, alarm, push, ident>>

\* a handleLock that shows the lock screen and stores nothing
HandleLock_NotPersisted(lockMessage, phoneNumber, how) ==
    /\ DeviceReady
    /\ how = "phoneThrows" => phoneNumber # ""
    /\ store' = store
    /\ cmd' = [cmd EXCEPT
          !.ops = @ + 1, !.restarts = 0,
          !.op = [Begin("lock") EXCEPT
                     !.how = how, !.lockMessage = lockMessage,
                     !.phoneNumber = phoneNumber,
                     !.pc = IF how = "ok" THEN "locked" ELSE "failed"]]
    /\ UNCHANGED <<scanVars, san, disk, walk, quar, alarm, push, ident>>

\* handleLock (lines 268-301): device_locked, lock_message and, if a phone
\* number is given, lock_phone_number are stored one after the other, then
\* the lock screen is shown; a setItem that throws ends the handler, the
\* error is logged
HandleLock(lockMessage, phoneNumber, how) ==
    /\ DeviceReady
    /\ how = "phoneThrows" => phoneNumber # ""
    /\ LET locked == setItem(store, "device_locked", "true")
           withMessage == setItem(locked, "lock_message",
                                  MessageOf(lockMessage))
           withPhone == IF phoneNumber # ""
                        THEN setItem(withMessage, "lock_phone_number",
                                     phoneNumber)
                        ELSE withMessage
       IN  store' = CASE how = "lockedThrows" -> store
                      [] how = "messageThrows" -> locked
                      [] how = "phoneThrows" -> withMessage
                      [] how = "ok" -> withPhone
    /\ cmd' = [cmd EXCEPT
          !.ops = @ + 1, !.restarts = 0,
          !.op = [Begin("lock") EXCEPT
                     !.how = how, !.lockMessage = lockMessage,
                     !.phoneNumber = phoneNumber,
                     !.pc = IF how = "ok" THEN "locked" ELSE "failed"]]
    /\ UNCHANGED <<scanVars, san, disk, walk, quar, alarm, push, ident>>

\* unlockDevice (lines 378-383): the three keys are removed; removeItem
\* logs an error of the store and does not throw, so device_locked can stay
UnlockDevice(how) ==
    /\ DeviceReady
    /\ LET unlocked == IF how = "removeThrows" THEN store
                       ELSE removeItem(store, "device_locked")
       IN  store' = removeItem(removeItem(unlocked, "lock_message"),
                               "lock_phone_number")
    /\ cmd' = [cmd EXCEPT
          !.ops = @ + 1, !.restarts = 0,
          !.op = [Begin("unlock") EXCEPT !.how = how, !.pc = "unlocked"]]
    /\ UNCHANGED <<scanVars, san, disk, walk, quar, alarm, push, ident>>

\* a handleWipe that clears the store when the command arrives
HandleWipe_WithoutPrompt ==
    /\ DeviceReady
    /\ store' = clear(store, "ok")
    /\ cmd' = [cmd EXCEPT
          !.ops = @ + 1, !.restarts = 0, !.prompts = @ + 1,
          !.op = [Begin("wipe") EXCEPT !.pc = "prompt"]]
    /\ UNCHANGED <<scanVars, san, disk, walk, quar, alarm, push, ident>>

\* handleWipe (lines 306-351): the prompt with Cancel and Wipe Data is
\* shown, nothing else is done
HandleWipe ==
    /\ DeviceReady
    /\ cmd' = [cmd EXCEPT
          !.ops = @ + 1, !.restarts = 0, !.prompts = @ + 1,
          !.op = [Begin("wipe") EXCEPT !.pc = "prompt"]]
    /\ UNCHANGED <<scanVars, san, disk, walk, quar, alarm, store, push,
                   ident>>

\* the user presses Cancel (lines 314-317): the prompt closes
WipeCancel ==
    /\ cmd.prompts > 0
    /\ cmd' = [cmd EXCEPT
          !.prompts = @ - 1,
          !.op = IF @.name = "wipe" /\ @.pc = "prompt" /\ cmd.prompts = 1
                 THEN [@ EXCEPT !.pc = "cancelled"] ELSE @]
    /\ UNCHANGED <<scanVars, san, disk, walk, quar, alarm, store, push,
                   ident>>

\* the user presses Wipe Data (lines 321-324): clear() is awaited; when
\* it throws the error is logged and the wipe ends
WipeConfirm(how) ==
    /\ cmd.prompts > 0
    /\ cmd.wipe # "cleared"
    /\ store' = clear(store, how)
    /\ LET pc == IF how = "asyncThrows" THEN "failed" ELSE "cleared"
           op == IF cmd.op.name = "wipe" THEN cmd.op ELSE Begin("wipe")
       IN  cmd' = [cmd EXCEPT
              !.prompts = @ - 1, !.wipe = pc,
              !.op = [op EXCEPT !.pc = pc, !.how = how]]
    /\ UNCHANGED <<scanVars, san, disk, walk, quar, alarm, push, ident>>

\* the wipe after clear() (lines 326-346): the quarantine directory is
\* deleted if it exists, then the completion message is shown; when the
\* deletion throws the error is logged and no message is shown
WipeDeleteQuarantine(how) ==
    /\ cmd.wipe = "cleared"
    /\ how = "throws" => quar.dir
    /\ IF how = "throws"
       THEN /\ cmd' = [cmd EXCEPT !.wipe = "failed", !.op.pc = "failed"]
            /\ quar' = quar
       ELSE /\ cmd' = [cmd EXCEPT !.wipe = "completed",
                                  !.op.pc = "completed"]
            /\ quar' = [quar EXCEPT !.files = RootDeleted(@),
                                    !.dir = FALSE]
    /\ UNCHANGED <<scanVars, san, disk, walk, alarm, store, push, ident>>

\* the process is killed and started again: the prompts and the handlers
\* under way are gone, what is persisted stays
Restart ==
    /\ cmd.ops < MaxCommands
    /\ cmd' = [cmd EXCEPT !.ops = @ + 1, !.restarts = @ + 1,
                          !.prompts = 0, !.wipe = "idle"]
    /\ UNCHANGED <<scanVars, san, disk, walk, quar, alarm, store, push,
                   ident>>

DeviceNext ==
    \/ \E how \in LocateOutcomes : HandleLocate(how)
    \/ \E m \in LockMessages, n \in PhoneNumbers, how \in LockOutcomes :
          HandleLock(m, n, how)
    \/ \E how \in UnlockOutcomes : UnlockDevice(how)
    \/ HandleWipe
    \/ WipeCancel
    \/ \E how \in ClearStoreOutcomes : WipeConfirm(how)
    \/ \E how \in WipeDeleteOutcomes : WipeDeleteQuarantine(how)
    \/ Restart

DeviceSpec == InitDevice /\ [][DeviceNext]_vars

\* ------------------------------------------------------------------- ring
\* nothing rings; in this specification the ring commands are handled
InitRing ==
    /\ ScanIdle
    /\ WalkIdle
    /\ SanitizeIdle
    /\ QuarantineIdle
    /\ StoreIdle
    /\ PushIdle
    /\ IdentIdle
    /\ \E v \in Services : alarm = [NoAlarm EXCEPT !.service = v]

\* handleRing (lines 216-248): the sound is created playing and looping
\* and stored in currentSound, the alert with the Stop button is shown and
\* the timer is set; when createAsync throws the error is logged
HandleRing(how) ==
    /\ alarm.commands < MaxRings
    /\ IF how = "ok"
       THEN alarm' = [alarm EXCEPT
                !.commands = @ + 1,
                !.sounds = Append(@, Sound(alarm.now)),
                !.currentSound = Len(alarm.sounds) + 1]
       ELSE alarm' = [alarm EXCEPT !.commands = @ + 1]
    /\ UNCHANGED <<scanVars, san, disk, walk, quar, store, cmd, push, ident>>

\* stopRinging up to its first await (lines 253-256): nothing is done
\* when currentSound is null; else stopAsync is called on it, which will
\* reject when the sound is not loaded
StopRinging(s) ==
    LET h == alarm.currentSound
    IN  IF h = 0
        THEN alarm' = [alarm EXCEPT !.stoppers[s] = "done"]
        ELSE alarm' = [alarm EXCEPT
                 !.sounds[h].stopCalls = @ + 1,
                 !.sounds[h].playing = FALSE,
                 !.stoppers[s] = IF alarm.sounds[h].loaded THEN "stopping"
                                 ELSE "rejected"]

\* the user presses Stop Ringing on the alert of the i-th ring command
StopPressed(i) ==
    /\ i \in 1..Len(alarm.sounds)
    /\ alarm.stoppers[ButtonOf(i)] = "idle"
    /\ StopRinging(ButtonOf(i))
    /\ UNCHANGED <<scanVars, san, disk, walk, quar, store, cmd, push, ident>>

\* the timer of the i-th ring command fires, RING_TIMEOUT after it was set
TimerFires(i) ==
    /\ i \in 1..Len(alarm.sounds)
    /\ alarm.stoppers[TimerOf(i)] = "idle"
    /\ alarm.now >= alarm.sounds[i].started + RING_TIMEOUT
    /\ StopRinging(TimerOf(i))
    /\ UNCHANGED <<scanVars, san, disk, walk, quar, store, cmd, push, ident>>

\* stopRinging after stopAsync (lines 257, 259-261): a rejection is logged;
\* else unloadAsync is called on what currentSound is now, which throws a
\* TypeError, logged too, when it is null. In the class
\* (AntiTheftService.ts, lines 206-212) nothing catches either: the promise
\* of stopRinging rejects, and the timer and the button do not await it
StopReturns(s) ==
    /\ alarm.stoppers[s] \in {"stopping", "rejected"}
    /\ LET h == alarm.currentSound
       IN  IF alarm.stoppers[s] = "rejected" \/ h = 0
           THEN IF alarm.service = "module"
                THEN alarm' = [alarm EXCEPT !.errors = @ + 1,
                                            !.stoppers[s] = "done"]
                ELSE alarm' = [alarm EXCEPT !.unhandled = @ + 1,
                                            !.stoppers[s] = "done"]
           ELSE alarm' = [alarm EXCEPT
                    !.sounds[h].unloadCalls = @ + 1,
                    !.sounds[h].loaded = FALSE,
                    !.sounds[h].playing = FALSE,
                    !.stoppers[s] = "unloading"]
    /\ UNCHANGED <<scanVars, san, disk, walk, quar, store, cmd, push, ident>>

\* stopRinging after unloadAsync (line 258): currentSound = null
UnloadReturns(s) ==
    /\ alarm.stoppers[s] = "unloading"
    /\ alarm' = [alarm EXCEPT !.currentSound = 0, !.stoppers[s] = "done"]
    /\ UNCHANGED <<scanVars, san, disk, walk, quar, store, cmd, push, ident>>

\* cleanup (lines 90-100): the current sound is unloaded, not awaited,
\* and currentSound = null
Cleanup ==
    /\ alarm.service = "module"
    /\ alarm.currentSound # 0
    /\ LET h == alarm.currentSound
       IN  alarm' = [alarm EXCEPT
                !.sounds[h].unloadCalls = @ + 1,
                !.sounds[h].loaded = FALSE,
                !.sounds[h].playing = FALSE,
                !.cleanups = @ + 1,
                !.currentSound = 0]
    /\ UNCHANGED <<scanVars, san, disk, walk, quar, store, cmd, push, ident>>

\* time passes: the timers that are due have fired and the calls of
\* stopRinging have run to their end, as if they took no time
Tick ==
    /\ alarm.ticks < MaxTicks
    /\ \A s \in Stoppers : alarm.stoppers[s] \in {"idle", "done"}
    /\ \A i \in 1..Len(alarm.sounds) :
          alarm.stoppers[TimerOf(i)] = "idle"
             => alarm.now < alarm.sounds[i].started + RING_TIMEOUT
    /\ alarm' = [alarm EXCEPT !.now = @ + TickLength, !.ticks = @ + 1]
    /\ UNCHANGED <<scanVars, san, disk, walk, quar, store, cmd, push, ident>>

RingNext ==
    \/ \E how \in CreateOutcomes : HandleRing(how)
    \/ \E i \in 1..MaxRings : StopPressed(i)
    \/ \E i \in 1..MaxRings : TimerFires(i)
    \/ \E s \in Stoppers : StopReturns(s)
    \/ \E s \in Stoppers : UnloadReturns(s)
    \/ Cleanup
    \/ Tick

RingSpec == InitRing /\ [][RingNext]_vars

\* ------------------------------------------------------ pushed commands
\* the service is not initialized and no push has arrived
InitPush ==
    /\ ScanIdle
    /\ WalkIdle
    /\ SanitizeIdle
    /\ QuarantineIdle
    /\ StoreIdle
    /\ AlarmIdle
    /\ IdentIdle
    /\ push = NoPush

\* initialize (lines 23-85), after registerPushToken: the handler of
\* foreground notifications is set, replacing the one before, and one more
\* response listener is added, which notificationSubscription now holds
Initialize ==
    /\ push.inits < MaxInits
    /\ LET l == push.inits + 1
       IN  push' = [push EXCEPT !.inits = l,
                                !.handler = TRUE,
                                !.listeners = @ \cup {l},
                                !.notificationSubscription = l]
    /\ UNCHANGED <<scanVars, san, disk, walk, quar, store, alarm, cmd, ident>>

\* cleanup (lines 90-95): the listener notificationSubscription holds is
\* removed; no sound is loaded here
RemoveSubscription ==
    /\ push.cleanups < MaxInits
    /\ push' = [push EXCEPT
          !.cleanups = @ + 1,
          !.listeners = @ \ {push.notificationSubscription},
          !.notificationSubscription = 0]
    /\ UNCHANGED <<scanVars, san, disk, walk, quar, store, alarm, cmd, ident>>

\* a push arrives while the application is in the foreground: the handler
\* set by initialize runs handleCommand (lines 33-43) and answers that the
\* notification is not to be shown (lines 45-51), so it cannot be tapped
HandleNotification(d) ==
    /\ push.handler
    /\ push.deliveries[d].st = "none"
    /\ push' = [push EXCEPT !.deliveries[d].st = "handled",
                            !.deliveries[d].executions = @ + 1]
    /\ UNCHANGED <<scanVars, san, disk, walk, quar, store, alarm, cmd, ident>>

\* a push arrives while the application is not in the foreground: the
\* system shows the notification, no code of the service runs
ShownBySystem(d) ==
    /\ push.deliveries[d].st = "none"
    /\ push' = [push EXCEPT !.deliveries[d].st = "shown"]
    /\ UNCHANGED <<scanVars, san, disk, walk, quar, store, alarm, cmd, ident>>

\* the user taps a notification that is shown: every response listener
\* that is registered runs handleCommand (lines 65-79)
ResponseReceived(d) ==
    /\ push.deliveries[d].st = "shown"
    /\ push' = [push EXCEPT
          !.deliveries[d].st = "tapped",
          !.deliveries[d].executions = @ + Cardinality(push.listeners)]
    /\ UNCHANGED <<scanVars, san, disk, walk, quar, store, alarm, cmd, ident>>

PushNext ==
    \/ Initialize
    \/ RemoveSubscription
    \/ \E d \in 1..MaxDeliveries : HandleNotification(d)
    \/ \E d \in 1..MaxDeliveries : ShownBySystem(d)
    \/ \E d \in 1..MaxDeliveries : ResponseReceived(d)

PushSpec == InitPush /\ [][PushNext]_vars

\* ------------------------------------------------------------ getDeviceId
\* a device with or without an identifier; a scan run and the locate
\* handler call getDeviceId, and a confirmed wipe clears the store
InitIdent ==
    /\ ScanIdle
    /\ WalkIdle
    /\ SanitizeIdle
    /\ QuarantineIdle
    /\ AlarmIdle
    /\ PushIdle
    /\ cmd = NoCmd
    /\ store \in {s \in InitStores : /\ getItem(s, "pin_code") = "null"
                                     /\ getItem(s, "last_scan_time") = "null"}
    /\ ident = NoIdent

\* getDeviceId is called (line 144): getItem is under way
GetDeviceIdCalled(c) ==
    /\ ident.calls[c].pc = "idle"
    /\ ident.calls[c].calls < MaxIdCalls
    /\ ident' = [ident EXCEPT !.calls[c].pc = "reading",
                              !.calls[c].calls = @ + 1,
                              !.calls[c].began = ident.clears]
    /\ UNCHANGED <<scanVars, san, disk, walk, quar, store, alarm, cmd, push>>

\* getItem returns (lines 144-151): the identifier that is stored is
\* returned (line 158); when there is none, or the read has failed and
\* getItem answers null, an identifier is generated and setItem is called
GetItemReturns(c, how) ==
    /\ ident.calls[c].pc = "reading"
    /\ LET deviceId == IF how = "ok" THEN getItem(store, "device_id")
                       ELSE "null"
           faults == ident.faults + (IF how = "ok" THEN 0 ELSE 1)
       IN  IF deviceId # "null"
           THEN ident' = [ident EXCEPT
                    !.faults = faults,
                    !.calls[c].pc = "idle",
                    !.calls[c].returned =
                       Append(@, Returned(deviceId, ident.calls[c].began,
                                          ident.clears))]
           ELSE ident' = [ident EXCEPT
                    !.faults = faults,
                    !.calls[c].pc = "storing",
                    !.calls[c].deviceId = FreshId(ident.generated + 1),
                    !.generated = @ + 1]
    /\ UNCHANGED <<scanVars, san, disk, walk, quar, store, alarm, cmd, push>>

\* setItem returns (lines 154-158): the identifier generated is stored and
\* returned; when setItem throws getDeviceId throws (lines 159-162)
SetItemReturns(c, how) ==
    /\ ident.calls[c].pc = "storing"
    /\ IF how = "ok"
       THEN /\ store' = setItem(store, "device_id", ident.calls[c].deviceId)
            /\ ident' = [ident EXCEPT
                  !.stored = Append(@, ident.clears),
                  !.calls[c].pc = "idle",
                  !.calls[c].returned =
                     Append(@, Returned(ident.calls[c].deviceId,
                                        ident.calls[c].began, ident.clears))]
       ELSE /\ store' = store
            /\ ident' = [ident EXCEPT !.calls[c].pc = "idle"]
    /\ UNCHANGED <<scanVars, san, disk, walk, quar, alarm, cmd, push>>

\* the user confirms a wipe (part_001, line 324): clear()
ClearStore(how) ==
    /\ ident.clears < MaxClears
    /\ store' = clear(store, how)
    /\ ident' = [ident EXCEPT !.clears = @ + 1]
    /\ UNCHANGED <<scanVars, san, disk, walk, quar, alarm, cmd, push>>

IdentNext ==
    \/ \E c \in IdCallers : GetDeviceIdCalled(c)
    \/ \E c \in IdCallers, how \in ReadOutcomes : GetItemReturns(c, how)
    \/ \E c \in IdCallers, how \in StoreOutcomes : SetItemReturns(c, how)
    \/ \E how \in ClearStoreOutcomes : ClearStore(how)

IdentSpec == InitIdent /\ [][IdentNext]_vars

\* --------------------------------------------------------------- properties
Range(s) == {s[j] : j \in 1..Len(s)}

RECURSIVE Sum(_)
Sum(s) == IF s = <<>> THEN 0 ELSE Head(s) + Sum(Tail(s))

KeyOfCall(c) == ScanKey(call[c].type, call[c].opts)

\* the call made in this step, if any
CallMade(c) == call[c].st = "none" /\ call'[c].st # "none"

Cancelled == "Scan cancelled by user"

FailedReports(r) == SelectSeq(run[r].reports, LAMBDA m : m.status = "failed")

CompletedReports(r) ==
    SelectSeq(run[r].reports, LAMBDA m : m.status = "completed")

\* the number of threat results among the first n results of run r
ThreatsAmong(r, n) ==
    Cardinality({j \in 1..Min(n, Len(run[r].results)) :
                    run[r].results[j].isThreat})

\* C1: under every interleaving of quickScan, fullScan and cancelScan calls
\* at most one executeScan run is in progress at any time.
C1_AtMostOneRun == Cardinality(ExecutingRuns) <= 1

\* C2: a call made while a run with the same scan type and the same options
\* is executing returns the promise of such a run and starts no run of its
\* own.
C2_SameKeyJoins ==
    [][\A c \in CallIds :
          (/\ CallMade(c)
           /\ \E r \in ExecutingRuns :
                 KeyOfCall(r) = ScanKey(call'[c].type, call'[c].opts))
          => /\ call'[c].st = "joined"
             /\ Executing(call'[c].target)
             /\ KeyOfCall(call'[c].target)
                   = ScanKey(call'[c].type, call'[c].opts)
             /\ run'[c].pc = "none"]_vars

\* C3: a call made while runs are executing, all of them with parameters
\* different from its own, sets the cancellation flag, returns no promise of
\* theirs, and starts its own run only after every run that was executing
\* when it was made has settled.
C3_DifferentKeyCancelsThenStarts ==
    [][\A c \in CallIds :
          /\ (/\ CallMade(c)
              /\ ExecutingRuns # {}
              /\ \A r \in ExecutingRuns :
                    KeyOfCall(r) # ScanKey(call'[c].type, call'[c].opts))
             => /\ scanCancelled'
                /\ call'[c].st = "waiting"
                /\ run'[c].pc = "none"
          /\ (/\ run[c].pc = "none"
              /\ run'[c].pc = "walk"
              /\ call[c].st = "waiting")
             => \A r \in call[c].seen : run'[r].pc \notin ExecutingPcs]_vars

\* C4: the in-flight promise is non-null exactly while a run is in
\* progress, and it and the scan key are cleared together once the run has
\* ended, so that the orchestrator is Idle again.
C4_PromiseIffRunning ==
    /\ (scanPromise # 0) <=> (ExecutingRuns # {})
    /\ scanPromise # 0 => Executing(scanPromise)
    /\ (scanPromise = 0) <=> (currentScanKey = NullKey)
    /\ \A r \in CallIds : run[r].pc = "settled" =>
          run[r].outcome \in {"completed", "cancelled", "failed"}

\* C5: once the cancellation flag was seen true at the top of a batch
\* iteration, that batch and all later ones are neither hashed nor looked up
\* and append no result, the run ends with the 'Scan cancelled by user'
\* error, and the run sends no report with status completed.
C5_CancelStopsBatches ==
    \A r \in CallIds : run[r].cancelSeenAt >= 0 =>
        /\ run[r].pc \in {"failreport", "settled"}
        /\ run[r].i = run[r].cancelSeenAt
        /\ Len(run[r].results) = run[r].cancelSeenAt
        /\ Len(run[r].batches) * BATCH_SIZE = run[r].cancelSeenAt
        /\ run[r].lookups = Len(run[r].batches)
        /\ Len(run[r].progress) = Len(run[r].batches)
        /\ run[r].error = Cancelled
        /\ CompletedReports(r) = <<>>
        /\ run[r].pc = "settled" =>
              run[r].outcome = "cancelled" /\ run[r].thrown = Cancelled

\* a run was cancelled after at least one whole batch and has ended
C5_Witness ==
    \E r \in CallIds :
        /\ run[r].pc = "settled"
        /\ run[r].cancelSeenAt >= BATCH_SIZE
        /\ run[r].cancelSeenAt < Len(run[r].files)

\* C6: a run that ends by cancellation sends no report with status failed.
C6_NoFailedReportOnCancel ==
    \A r \in CallIds : run[r].error = Cancelled => FailedReports(r) = <<>>

C8_CompletionReport ==
    \A r \in CallIds :
        (run[r].pc = "settled" /\ run[r].outcome = "completed")
        => LET res == run[r].results
               rep == run[r].reports[1]
           IN  /\ Len(run[r].reports) = 1
               /\ rep.status = "completed"
               /\ rep.filesScanned = Len(run[r].files)
               /\ rep.threatsFound = ThreatsAmong(r, Len(res))
               /\ Len(rep.threats) = ThreatsAmong(r, Len(res))
               /\ \A j \in 1..Len(res) : res[j].isThreat =>
                     /\ rep.threats[ThreatsAmong(r, j)].file = res[j].file
                     /\ rep.threats[ThreatsAmong(r, j)].fileHash = res[j].hash
               /\ Len(res) = Len(run[r].files)
               /\ \A j \in 1..Len(res) : res[j].file = run[r].files[j]

\* a run over several batches completed with threats among its results
C8_Witness ==
    \E r \in CallIds :
        /\ run[r].pc = "settled"
        /\ run[r].outcome = "completed"
        /\ Len(run[r].files) > 2 * BATCH_SIZE
        /\ run[r].threatsFound >= 2

\* C9: for every run that is neither cancelled nor failed the batches
\* partition the candidate list: the batch sizes sum to totalFiles, every
\* batch but the last holds exactly BATCH_SIZE files, and the filesScanned of
\* the last progress update and of the completion report is totalFiles.
C9_BatchesPartition ==
    \A r \in CallIds :
        (run[r].pc = "settled" /\ run[r].outcome = "completed")
        => LET total == Len(run[r].files)
               b == run[r].batches
               p == run[r].progress
           IN  /\ Sum(b) = total
               /\ \A k \in 1..Len(b) - 1 : b[k] = BATCH_SIZE
               /\ \A k \in 1..Len(b) : b[k] \in 1..BATCH_SIZE
               /\ p # <<>> => p[Len(p)].filesScanned = total
               /\ Len(CompletedReports(r)) = 1
               /\ CompletedReports(r)[1].filesScanned = total

\* a completed run whose last batch is a partial one
C9_Witness ==
    \E r \in CallIds :
        /\ run[r].pc = "settled"
        /\ run[r].outcome = "completed"
        /\ Len(run[r].batches) = 3
        /\ run[r].batches[3] < BATCH_SIZE

\* C10: the progress callback is invoked once per processed batch, in batch
\* order; the k-th call carries filesScanned = min(k * BATCH_SIZE,
\* totalFiles), strictly more than the call before, and threatsFound = the
\* number of threat results of the batches processed so far.
C10_ProgressPerBatch ==
    \A r \in CallIds :
        LET p == run[r].progress
            total == Len(run[r].files)
        IN  /\ Len(p) * BATCH_SIZE = run[r].i
            /\ Len(p) = run[r].lookups
                         - (IF run[r].error = "hash-check failed" THEN 1 ELSE 0)
            /\ \A k \in 1..Len(p) :
                  /\ p[k].filesScanned = Min(k * BATCH_SIZE, total)
                  /\ p[k].totalFiles = total
                  /\ p[k].threatsFound = ThreatsAmong(r, k * BATCH_SIZE)
                  /\ k > 1 => /\ p[k].filesScanned > p[k - 1].filesScanned
                              /\ p[k].threatsFound >= p[k - 1].threatsFound

\* the example of the design: 120 files, two threats in the second batch
C10_Witness ==
    \E r \in CallIds :
        /\ Len(run[r].files) = 2 * BATCH_SIZE + 20
        /\ Len(run[r].progress) = 3
        /\ run[r].progress[1].filesScanned = BATCH_SIZE
        /\ run[r].progress[1].threatsFound = 0
        /\ run[r].progress[2].filesScanned = 2 * BATCH_SIZE
        /\ run[r].progress[2].threatsFound = 2
        /\ run[r].progress[3].filesScanned = 2 * BATCH_SIZE + 20
        /\ run[r].progress[3].threatsFound = 2

\* C11: a result whose fingerprint is the empty string (an unreadable file)
\* never has isThreat = TRUE and is never counted in threatsFound, whatever
\* entries the oracle returns.
C11_EmptyFingerprintNeverThreat ==
    \A r \in CallIds :
        /\ \A j \in 1..Len(run[r].results) :
              run[r].results[j].hash = "" => ~run[r].results[j].isThreat
        /\ run[r].threatsFound =
              Cardinality({j \in 1..Len(run[r].results) :
                              /\ run[r].results[j].isThreat
                              /\ run[r].results[j].hash # ""})

\* the path of a file on the device: absolute, with or without the scheme
IsDevicePath(p) ==
    LET raw == StripFileScheme(p)
    IN  /\ Len(raw) > 1
        /\ raw[1] = Slash
        /\ raw[Len(raw)] # Slash
        /\ ~StartsWith(raw, FileScheme)

\* C12: the filePath of a threat entry is never the raw absolute device path
\* of the file, with or without the file:// scheme, unless pathSanitization
\* is 'none'; with no options the mode is 'home'.
C12_NoRawPathUnlessNone ==
    (Len(san.returned) >= 1 /\ IsDevicePath(san.filePath))
    => /\ ModeOf(san.options) # "none"
          => san.returned[1] \notin {san.filePath,
                                     StripFileScheme(san.filePath)}
       /\ san.options = NoOptions
          => san.returned[1] = HomeRedact(StripFileScheme(san.filePath))

\* C13: under the modes filename, hashed and none, sanitizePath applied to
\* its own output with the same options returns that output.
C13_IdempotentFilenameHashedNone ==
    (/\ Len(san.returned) >= 2
     /\ ModeOf(san.options) \in {"filename", "hashed", "none"})
    => san.returned[2] = san.returned[1]

\* C14: under the modes relative (any fixed root) and home, sanitizePath
\* applied to its own output with the same options returns that output.
C14_IdempotentRelativeHome ==
    (/\ Len(san.returned) >= 2
     /\ ModeOf(san.options) \in {"relative", "home"})
    => san.returned[2] = san.returned[1]

\* the files in the directories the walk lists: those of the roots, and of
\* the directories below them in a full scan, that can be listed
RECURSIVE ListedFiles(_, _)
ListedFiles(dir, recursive) ==
    IF dir.kind # "dir" \/ ~dir.listable THEN {}
    ELSE {it \in Range(dir.items) : it.kind = "file"}
         \cup (IF recursive
                THEN UNION {ListedFiles(d, recursive) :
                              d \in {it \in Range(dir.items) :
                                         it.kind = "dir"}}
                ELSE {})

WalkedFiles ==
    UNION {ListedFiles(root, walk.type = "full") :
              root \in Range(ScanRoots(walk.type, disk))}

\* C15: the candidate list never holds a file larger than MAX_FILE_SIZE,
\* and size is the only filter: every existing file of a listed directory
\* whose size is from 0 up to and including MAX_FILE_SIZE is a candidate.
C15_OnlyLargeFilesSkipped ==
    walk.done =>
        /\ \A j \in 1..Len(walk.files) : walk.files[j].size <= MAX_FILE_SIZE
        /\ walk.whole =>
              \A f \in WalkedFiles :
                  f.size \in 0..MAX_FILE_SIZE => f \in Range(walk.files)

\* C16: no run ends with a listing error or a read error; a directory that
\* cannot be listed is skipped and the files of the other directories are
\* still found; a file that cannot be read gets the empty fingerprint, and
\* the files after it, in its batch and in later batches, are classified.
C16_FailuresAreSkipped ==
    /\ \A r \in CallIds :
          run[r].error \in {"", Cancelled, "hash-check failed",
                            "scan report failed", "Failed to get device ID"}
    /\ (walk.done /\ walk.whole) =>
          {f.id : f \in Range(walk.files)}
             = {f.id : f \in {g \in WalkedFiles :
                                 g.size \in 1..MAX_FILE_SIZE}}
    /\ \A r \in CallIds :
          /\ \A j \in 1..Len(run[r].results) :
                /\ run[r].results[j].hash = walk.files[j].content
                /\ run[r].results[j].isThreat
                      = (walk.files[j].content = "bb")
          /\ (run[r].pc = "settled" /\ run[r].outcome = "completed")
                => Len(run[r].results) = Len(walk.files)

\* a full scan completed in two batches on a device with a directory that
\* cannot be listed and a file that cannot be read, and found the threat
\* listed after both
C16_Witness ==
    \E r \in CallIds :
        /\ run[r].pc = "settled"
        /\ run[r].outcome = "completed"
        /\ walk.type = "full"
        /\ ~disk.document.items[2].listable
        /\ Len(run[r].batches) = 2
        /\ run[r].results[1].hash = ""
        /\ run[r].results[2].isThreat
        /\ Len(run[r].results) > BATCH_SIZE

\* C17: after quarantineFile has returned, the file is no longer at its
\* source path, it is at <quarantine root>/<fileHash>, that path is the
\* value returned, and exactly one request reporting it was sent.
C17_QuarantineMovesAndReports ==
    LET op == quar.op
    IN  (op.name = "quarantine" /\ op.pc = "returned")
        => /\ quar.files[op.filePath] = "absent"
           /\ op.before[op.filePath] # "absent"
           /\ quar.files[QuarantinePath(op.fileHash)] = op.before[op.filePath]
           /\ op.value = QuarantinePath(op.fileHash)
           /\ Len(quar.requests) = op.requestsBefore + 1
           /\ quar.requests[Len(quar.requests)] = QuarantineEvent(op)
           /\ op.report \in {"ok", "httpError"}

\* a file was quarantined and reported
C17_Witness ==
    /\ quar.op.name = "quarantine"
    /\ quar.op.pc = "returned"
    /\ quar.files[QuarantinePath(quar.op.fileHash)] \in Contents

\* C18: quarantineFile on a source path that does not exist and
\* restoreQuarantinedFile on a quarantine path that does not exist throw
\* their not-found error, change no file and send no request.
C18_NotFoundChangesNothing ==
    LET op == quar.op
    IN  (/\ op.name \in {"quarantine", "restore"}
         /\ op.before[op.filePath] = "absent")
        => /\ op.pc = "threw"
           /\ op.error = (IF op.name = "quarantine"
                           THEN "File does not exist"
                           ELSE "Quarantined file does not exist")
           /\ quar.files = op.before
           /\ Len(quar.requests) = op.requestsBefore

\* restoreQuarantinedFile was called, after an earlier call, on a
\* quarantine path that holds no file, while other files exist
C18_Witness ==
    /\ quar.op.name = "restore"
    /\ quar.op.pc = "threw"
    /\ quar.op.error = "Quarantined file does not exist"
    /\ \E p \in DevicePaths : quar.files[p] # "absent"
    /\ quar.ops >= 2

C20_RestoreUndoesQuarantine ==
    LET op == quar.op
    IN  (/\ op.name = "restore"
         /\ op.pc = "returned"
         /\ quar.last # NoLast
         /\ op.filePath = QuarantinePath(quar.last.hash)
         /\ op.originalPath = quar.last.src)
        => /\ quar.files[quar.last.src] = quar.last.content
           /\ quar.files[QuarantinePath(quar.last.hash)] = "absent"
           /\ ~isFileQuarantined(quar.last.hash)

\* a file was quarantined and then restored to where it was
C20_Witness ==
    /\ quar.op.name = "restore"
    /\ quar.op.pc = "returned"
    /\ quar.last # NoLast
    /\ quar.op.filePath = QuarantinePath(quar.last.hash)
    /\ quar.op.originalPath = quar.last.src
    /\ quar.files[quar.last.src] \in Contents

\* C21: a file in the quarantine directory is always at
\* <quarantine root>/<fileHash>, and quarantineFile of a file whose hash
\* already has a file there leaves the same files in the directory: the
\* file at that path is overwritten and the source is gone, or the move
\* throws and nothing changes; there is never a second file for the hash.
C21_SameHashOneArtifact ==
    LET op == quar.op
        at == QuarantinePath(op.fileHash)
    IN  /\ Artifacts(quar.files) \subseteq QuarantinePaths
        /\ (/\ op.name = "quarantine"
            /\ op.before[op.filePath] # "absent"
            /\ op.before[at] # "absent")
           => /\ Artifacts(quar.files) = Artifacts(op.before)
              /\ \/ /\ op.pc \in {"moved", "returned"} \/ op.report # ""
                    /\ quar.files[at] = op.before[op.filePath]
                    /\ quar.files[op.filePath] = "absent"
                 \/ /\ op.pc = "threw"
                    /\ op.error = "move failed"
                    /\ quar.files = op.before

\* a second file with the hash of the only quarantined file was
\* quarantined, and it has replaced the first
C21_Witness ==
    /\ quar.op.name = "quarantine"
    /\ quar.op.pc = "returned"
    /\ quar.ops = 2
    /\ quar.op.before[QuarantinePath(quar.op.fileHash)] \in Contents
    /\ quar.op.before[quar.op.filePath] \in Contents
    /\ quar.op.before[quar.op.filePath]
          # quar.op.before[QuarantinePath(quar.op.fileHash)]
    /\ Cardinality(Artifacts(quar.files)) = 1

\* C22: unless File.delete itself throws, deleteQuarantinedFile leaves no
\* file at filePath and sends exactly one request recording the deletion,
\* whether the file existed or not; it returns whenever the request is
\* answered, and a missing file is never the reason of an error.
C22_DeleteToleratesMissingFile ==
    LET op == quar.op
    IN  (op.name = "delete" /\ op.report # "deleteThrows")
        => /\ quar.files[op.filePath] = "absent"
           /\ \A p \in DevicePaths \ {op.filePath} :
                 quar.files[p] = op.before[p]
           /\ Len(quar.requests) = op.requestsBefore + 1
           /\ quar.requests[Len(quar.requests)]
                 = QuarantineDelete(op.quarantineId)
           /\ op.report \in {"ok", "httpError"} => op.pc = "returned"
           /\ op.report = "network"
                 => op.pc = "threw" /\ op.error = "quarantine delete failed"

\* a quarantined file was deleted, and deleteQuarantinedFile was called
\* for it a second time and returned
C22_Witness ==
    /\ quar.op.name = "delete"
    /\ quar.op.pc = "returned"
    /\ quar.op.before[quar.op.filePath] = "absent"
    /\ Len(quar.requests) = 3
    /\ quar.requests[2] = QuarantineDelete(quar.op.quarantineId)
    /\ quar.requests[3] = QuarantineDelete(quar.op.quarantineId)
    /\ \E h \in FileHashes :
          /\ quar.op.filePath = QuarantinePath(h)
          /\ quar.requests[1] = [fileHash |-> h, filePath |-> QuarantinePath(h)]

\* C23: when deleteQuarantinedFile or clearAllQuarantine has removed a file
\* from the quarantine directory, a request recording a deletion was sent
\* to the backend during the call.
C23_DeletionIsNotified ==
    LET op == quar.op
    IN  (/\ op.name \in {"delete", "clearAll"}
         /\ Artifacts(op.before) \ Artifacts(quar.files) # {})
        => /\ Len(quar.requests) > op.requestsBefore
           /\ quar.requests[Len(quar.requests)]
                 \in {QuarantineDelete(id) : id \in QuarantineIds}

\* C24: while the prompt of the latest wipe command is unanswered, after
\* the user pressed Cancel, and across restarts of the process, every
\* stored key (the lock state and the device identifier among them) and
\* the quarantine directory with its files are as they were when the
\* command arrived.
C24_NoWipeWithoutConfirmation ==
    (cmd.op.name = "wipe" /\ cmd.op.pc \in {"prompt", "cancelled"})
    => /\ store = cmd.op.storeBefore
       /\ quar.files = cmd.op.filesBefore
       /\ quar.dir = cmd.op.dirBefore

\* a locked device with a device identifier and a quarantined file got a
\* wipe command, and the user pressed Cancel
C24_Witness ==
    /\ cmd.op.name = "wipe"
    /\ cmd.op.pc = "cancelled"
    /\ isDeviceLocked(store)
    /\ getItem(store, "device_id") # "null"
    /\ Artifacts(quar.files) # {}

\* C25: when the completion message of a confirmed wipe has been shown, no
\* key has a value any more, in the regular store and in the secure store,
\* and the quarantine directory does not exist.
C25_WipeClearsBeforeCompletion ==
    (cmd.op.name = "wipe" /\ cmd.op.pc = "completed")
    => /\ \A k \in STORAGE_KEYS : getItem(store, k) = "null"
       /\ ~quar.dir
       /\ Artifacts(quar.files) = {}

\* the Stop button was never pressed and cleanup was never called
NoInteraction ==
    /\ \A i \in 1..MaxRings : alarm.stoppers[ButtonOf(i)] = "idle"
    /\ alarm.cleanups = 0

\* C26: when nobody presses Stop, a sound that a ring command started
\* more than RING_TIMEOUT ago is neither playing nor loaded.
C26_RingStopsAfterTimeout ==
    NoInteraction
    => \A i \in 1..Len(alarm.sounds) :
          alarm.now > alarm.sounds[i].started + RING_TIMEOUT
             => ~alarm.sounds[i].playing /\ ~alarm.sounds[i].loaded

\* C27: the sound of a ring command is stopped at most once and unloaded
\* at most once, and stopRinging meets no error, whether the Stop button
\* is pressed before, after or while the timer's stopRinging runs.
C27_StopTwiceIsSafe ==
    (Len(alarm.sounds) = 1 /\ alarm.cleanups = 0)
    => /\ alarm.sounds[1].stopCalls <= 1
       /\ alarm.sounds[1].unloadCalls <= 1
       /\ alarm.errors = 0
       /\ alarm.unhandled = 0

\* the sounds that are loaded
LiveSounds == {i \in 1..Len(alarm.sounds) : alarm.sounds[i].loaded}

\* C28: at most one alarm sound is loaded at any time: a ring command that
\* arrives while a sound is loaded has that sound stopped and unloaded.
C28_AtMostOneLiveSound == Cardinality(LiveSounds) <= 1

C30_LockChangesOnlyByLockUnlock ==
    /\ cmd.ops = 0 => ~isDeviceLocked(store)
    /\ cmd.op.name \notin {"none", "lock", "unlock"}
          => isDeviceLocked(store) = isDeviceLocked(cmd.op.storeBefore)
    /\ cmd.op.name = "lock"
          => (isDeviceLocked(cmd.op.storeBefore) => isDeviceLocked(store))
    /\ cmd.op.name = "unlock"
          => (isDeviceLocked(store) => isDeviceLocked(cmd.op.storeBefore))

\* C31: after unlockDevice has returned, and for as long as nothing but
\* restarts of the process follows, isDeviceLocked() is false,
\* getLockMessage() is the default message and getLockPhoneNumber() is
\* null, also when a removal of the store has failed during the unlock.
C31_UnlockClearsLock ==
    (cmd.op.name = "unlock" /\ cmd.op.pc = "unlocked")
    => /\ ~isDeviceLocked(store)
       /\ getLockMessage(store) = "Device is locked"
       /\ getLockPhoneNumber(store) = "null"

C33_EveryErrorIsCaught == alarm.unhandled = 0

\* C34: handleCommand is run at most once for each push that is
\* delivered, by the foreground handler or by a response listener.
C34_AtMostOncePerDelivery ==
    \A d \in 1..MaxDeliveries : push.deliveries[d].executions <= 1

\* the identifiers the scan run has put into its requests
ScanDeviceIds ==
    {ident.calls["scan"].returned[j].deviceId :
        j \in 1..Len(ident.calls["scan"].returned)}

\* C35: a scan run sends one and the same deviceId in its hash-check
\* requests and its report, as it does when it runs alone, whatever
\* commands (locate, a confirmed wipe) are handled while it runs, as long
\* as no read of the store fails.
C35_CommandsLeaveScanAlone ==
    ident.faults = 0 => Cardinality(ScanDeviceIds) <= 1

\* the calls of getDeviceId that have returned
ReturnedCalls ==
    UNION {{ident.calls[c].returned[j] :
               j \in 1..Len(ident.calls[c].returned)} : c \in IdCallers}

\* C38: as long as no read of the store fails, the calls of getDeviceId
\* that begin and return between the same two clears of the store return
\* the same identifier, also when they overlap, and at most one identifier
\* is generated and stored between two clears.
C38_OneDeviceIdPerStore ==
    ident.faults = 0
    => /\ \A r1, r2 \in ReturnedCalls :
             (/\ r1.began = r1.ended
              /\ r2.began = r2.ended
              /\ r1.began = r2.began)
             => r1.deviceId = r2.deviceId
       /\ \A i, j \in 1..Len(ident.stored) :
             ident.stored[i] = ident.stored[j] => i = j

\* C36: in every run at most one batch is under way: a batch is hashed and
\* its lookup sent only when the results and the progress call of all the
\* batches before it are there, a batch is left unfinished only by the
\* lookup in flight or by the failure of the run, no batch has more than
\* one lookup, and no batch, so no lookup, holds more than BATCH_SIZE files.
C36_BatchesAreSequential ==
    \A r \in CallIds :
        LET b == run[r].batches
            started == Len(b)
            finished == Len(run[r].progress)
        IN  /\ started - finished \in {0, 1}
            /\ run[r].pc = "lookup" => started = finished + 1
            /\ started = finished + 1
                  => run[r].pc \in {"lookup", "failreport", "settled"}
            /\ Len(run[r].results) = Sum(SubSeq(b, 1, Min(finished, started)))
            /\ run[r].lookups <= started
            /\ \A k \in 1..started : b[k] <= BATCH_SIZE

\* the lookup of the third batch is in flight, after two whole batches
C36_Witness ==
    \E r \in CallIds :
        /\ run[r].pc = "lookup"
        /\ Len(run[r].batches) = 3
        /\ Len(run[r].progress) = 2
        /\ Len(run[r].results) = 2 * BATCH_SIZE

\* C37: a scan requested after a cancelScan() that was made while no scan
\* was running, and not cancelled again, never sees the flag: it does not
\* end with the cancellation error, it walks the whole device, and when no
\* request fails it ends completed with a result for every file.
C37_StaleCancelIsForgotten ==
    \A r \in CallIds :
        /\ run[r].cancelSeenAt < 0
        /\ run[r].error # Cancelled
        /\ (run[r].pc \in {"loop", "lookup", "report", "settled"}
               /\ run[r].error = "")
              => Len(run[r].files) = Len(fs)
        /\ (run[r].pc = "settled" /\ run[r].error = "")
              => /\ run[r].outcome = "completed"
                 /\ Len(run[r].results) = Len(fs)

\* the scan after the stale cancel has completed, with several batches
C37_Witness ==
    \E r \in CallIds :
        /\ run[r].pc = "settled"
        /\ run[r].outcome = "completed"
        /\ Len(run[r].results) > BATCH_SIZE

\* C39: no file of the quarantine root is among the candidates of a quick
\* or a full scan.
C39_QuarantineIsNotScanned ==
    walk.done =>
        \A j \in 1..Len(walk.files) :
            walk.files[j] \notin Range(QuarantineRoot.items)

\* C40: once a lock command without a phone number has been handled, and
\* for as long as nothing but restarts of the process follows,
\* getLockPhoneNumber() is null.
C40_LockWithoutPhoneHasNone ==
    (cmd.op.name = "lock" /\ cmd.op.pc = "locked" /\ cmd.op.phoneNumber = "")
    => getLockPhoneNumber(store) = "null"

TypeOK ==
    /\ scanPromise \in {0} \cup CallIds
    /\ scanCancelled \in BOOLEAN
    /\ numCalls \in 0..callBudget
====
